---- MODULE Spec2Model ----
(***************************************************************************)
(* MorseDecoder (src/modules/morse_decoder.py): the pulse segmenter, the   *)
(* symbol classifier and the letter decoder of the decoding pipeline.      *)
(*                                                                         *)
(* Times are counted in samples (sample_rate divides every time in the     *)
(* source alike), percentiles are kept scaled by 100 and thresholds by 200 *)
(* so that numpy's linear interpolation stays in the integers.             *)
(* Characters outside ASCII are written by code point: "U+25A1" is the     *)
(* unknown-symbol box, "U+0410".."U+042F" are the Cyrillic capitals.       *)
(***************************************************************************)
EXTENDS Integers, Sequences, FiniteSets, TLC

VARIABLES
  envelope,          \* envelope samples handed to detect_pulses
  pulse_percentile,  \* self.pulse_percentile
  gap_percentiles,   \* <<gap_percentile_dot_dash, gap_percentile_char, gap_percentile_word>>
  pulses,            \* list of [start, end, duration]
  gaps,              \* list of gap durations
  letter_threshold,  \* group_morse_symbols: letter_threshold * 200
  word_threshold,    \* group_morse_symbols: word_threshold * 200
  morse_letters,     \* letter tokens, " " is the word break
  text_en,           \* decode_morse(morse_letters, 'en')
  text_ru,           \* decode_morse(morse_letters, 'ru')
  message,           \* the keyed message of a synthesised input, <<>> otherwise
  pc,                \* position in process_file
  stats,             \* the stats dict of the result process_file returns
  numpy_release,     \* what np.percentile does on an empty list in this process
  cache,             \* _DECODE_CACHE: [key, result] entries in insertion order
  worker,            \* per thread: position in process_file and its locals
  reinserts,         \* calls made so far for a key the cache has evicted
  tuning_file,       \* auto_tune_parameters: the file, as its envelope
  mode,              \* auto_tune_parameters: 'fast', 'thorough' or 'extreme'
  evaluated,         \* the parameter tuples test_parameter_combination was called with
  results,           \* auto_tune_parameters: results
  best_score,        \* auto_tune_parameters: best_score
  best_result,       \* auto_tune_parameters: best_result
  result_index,      \* results handled so far by the loop of lines 217-221
  audio_loads,       \* calls of load_audio (process_file, line 379) made for the tuner
  tuner_pc,          \* position in auto_tune_parameters
  score_args,        \* arguments of two calls of calculate_quality_score
  scores,            \* what the two calls return, <<>> before they are made
  wav_files,         \* cmd_batch: the sorted *.wav files of the folder
  workers,           \* cmd_batch: workers after line 111
  futures,           \* cmd_batch: per file, the state of its future in the executor
  file_calls,        \* per file, the calls of the closure process_file made so far
  file_reports,      \* per file, what the closure printed and returned
  batch_results,     \* cmd_batch: results
  completed_count,   \* files the collecting loop has handled
  batch_pc,          \* position in cmd_batch
  analyzer_call,     \* the arguments of a call of an analysis function
  analyzer_result,   \* what the call returned, <<>> before it is made
  last_call          \* the last process_file call of a decoder with its own passband

pipeline_vars ==
  <<envelope, pulse_percentile, gap_percentiles, pulses, gaps, letter_threshold,
    word_threshold, morse_letters, text_en, text_ru, message, pc, stats>>

cache_vars == <<cache, worker, reinserts>>

tuner_vars ==
  <<tuning_file, mode, evaluated, results, best_score, best_result, result_index,
    audio_loads, tuner_pc>>

score_vars == <<score_args, scores>>

batch_vars ==
  <<wav_files, workers, futures, file_calls, file_reports, batch_results,
    completed_count, batch_pc>>

analyzer_vars == <<analyzer_call, analyzer_result>>

vars ==
  <<pipeline_vars, numpy_release, cache_vars, tuner_vars, score_vars, batch_vars,
    analyzer_vars, last_call>>

\* ------------------------------------------------------------------------
\* Lookup tables

\* A Python dict literal: a later item with the same key replaces the earlier one.
DictOf(items) ==
  [k \in {items[i][1] : i \in DOMAIN items} |->
     items[CHOOSE i \in DOMAIN items :
             /\ items[i][1] = k
             /\ \A j \in DOMAIN items : items[j][1] = k => j <= i][2]]

PROSIGNS_MORSE ==
  DictOf(<<
    <<".-.-.", <<"<", "A", "R", ">">>>>,
    <<"...-.-", <<"<", "S", "K", ">">>>>,
    <<"-...-", <<"<", "B", "T", ">">>>>,
    <<"-.-.-", <<"<", "C", "T", ">">>>>,
    <<"-.--.", <<"<", "K", "N", ">">>>>,
    <<".-...", <<"<", "A", "S", ">">>>>,
    <<"........", <<"<", "H", "H", ">">>>>,
    <<"...-.", <<"<", "S", "N", ">">>>>,
    <<"..-.", <<"<", "I", "N", "T", ">">>>>
  >>)

MORSE_CODE_DICT_EN ==
  DictOf(<<
    <<".-", <<"A">>>>,
    <<"-...", <<"B">>>>,
    <<"-.-.", <<"C">>>>,
    <<"-..", <<"D">>>>,
    <<".", <<"E">>>>,
    <<"..-.", <<"F">>>>,
    <<"--.", <<"G">>>>,
    <<"....", <<"H">>>>,
    <<"..", <<"I">>>>,
    <<".---", <<"J">>>>,
    <<"-.-", <<"K">>>>,
    <<".-..", <<"L">>>>,
    <<"--", <<"M">>>>,
    <<"-.", <<"N">>>>,
    <<"---", <<"O">>>>,
    <<".--.", <<"P">>>>,
    <<"--.-", <<"Q">>>>,
    <<".-.", <<"R">>>>,
    <<"...", <<"S">>>>,
    <<"-", <<"T">>>>,
    <<"..-", <<"U">>>>,
    <<"...-", <<"V">>>>,
    <<".--", <<"W">>>>,
    <<"-..-", <<"X">>>>,
    <<"-.--", <<"Y">>>>,
    <<"--..", <<"Z">>>>,
    <<"-----", <<"0">>>>,
    <<".----", <<"1">>>>,
    <<"..---", <<"2">>>>,
    <<"...--", <<"3">>>>,
    <<"....-", <<"4">>>>,
    <<".....", <<"5">>>>,
    <<"-....", <<"6">>>>,
    <<"--...", <<"7">>>>,
    <<"---..", <<"8">>>>,
    <<"----.", <<"9">>>>,
    <<".-.-.-", <<".">>>>,
    <<"--..--", <<",">>>>,
    <<"..--..", <<"?">>>>,
    <<".----.", <<"'">>>>,
    <<"-.-.--", <<"!">>>>,
    <<"-..-.", <<"/">>>>,
    <<"-.--.", <<"(">>>>,
    <<"-.--.-", <<")">>>>,
    <<".-...", <<"&">>>>,
    <<"---...", <<":">>>>,
    <<"-.-.-.", <<";">>>>,
    <<"-...-", <<"=">>>>,
    <<".-.-.", <<"+">>>>,
    <<"-....-", <<"-">>>>,
    <<"..--.-", <<"_">>>>,
    <<".-..-.", <<"\"">>>>,
    <<"...-..-", <<"$">>>>,
    <<".--.-.", <<"@">>>>
  >>)

MORSE_CODE_DICT_RU_ITEMS ==
  <<
    <<".-", <<"U+0410">>>>,
    <<"-...", <<"U+0411">>>>,
    <<".--", <<"U+0412">>>>,
    <<"--.", <<"U+0413">>>>,
    <<"-..", <<"U+0414">>>>,
    <<".", <<"U+0415">>>>,
    <<"...-", <<"U+0416">>>>,
    <<"--..", <<"U+0417">>>>,
    <<"..", <<"U+0418">>>>,
    <<".---", <<"U+0419">>>>,
    <<"-.-", <<"U+041A">>>>,
    <<".-..", <<"U+041B">>>>,
    <<"--", <<"U+041C">>>>,
    <<"-.", <<"U+041D">>>>,
    <<"---", <<"U+041E">>>>,
    <<".--.", <<"U+041F">>>>,
    <<".-.", <<"U+0420">>>>,
    <<"...", <<"U+0421">>>>,
    <<"-", <<"U+0422">>>>,
    <<"..-", <<"U+0423">>>>,
    <<"..-.", <<"U+0424">>>>,
    <<"....", <<"U+0425">>>>,
    <<"-.-.", <<"U+0426">>>>,
    <<"---.", <<"U+0427">>>>,
    <<"----", <<"U+0428">>>>,
    <<"--.-", <<"U+0429">>>>,
    <<"-.--", <<"U+042B">>>>,
    <<"-..-", <<"U+042C">>>>,
    <<"..-.", <<"U+042D">>>>,
    <<"..--", <<"U+042E">>>>,
    <<".-.-", <<"U+042F">>>>,
    <<"-----", <<"0">>>>,
    <<".----", <<"1">>>>,
    <<"..---", <<"2">>>>,
    <<"...--", <<"3">>>>,
    <<"....-", <<"4">>>>,
    <<".....", <<"5">>>>,
    <<"-....", <<"6">>>>,
    <<"--...", <<"7">>>>,
    <<"---..", <<"8">>>>,
    <<"----.", <<"9">>>>,
    <<".-.-.-", <<".">>>>,
    <<"--..--", <<",">>>>,
    <<"..--..", <<"?">>>>,
    <<".----.", <<"'">>>>,
    <<"-.-.--", <<"!">>>>,
    <<"-..-.", <<"/">>>>,
    <<"-.--.", <<"(">>>>,
    <<"-.--.-", <<")">>>>,
    <<"---...", <<":">>>>,
    <<"-.-.-.", <<";">>>>,
    <<"-...-", <<"=">>>>
  >>

\* The Cyrillic table without its digit and punctuation items.
MORSE_CODE_DICT_RU_letters_only == DictOf(SubSeq(MORSE_CODE_DICT_RU_ITEMS, 1, 31))

MORSE_CODE_DICT_RU == DictOf(MORSE_CODE_DICT_RU_ITEMS)


\* The word-break sentinel among the letter tokens.
WORD_BREAK == " "

\* ------------------------------------------------------------------------
\* numpy helpers

RECURSIVE insert_sorted(_, _)
insert_sorted(x, sorted) ==
  IF sorted = <<>> THEN <<x>>
  ELSE IF x <= Head(sorted) THEN <<x>> \o sorted
  ELSE <<Head(sorted)>> \o insert_sorted(x, Tail(sorted))

\* np.sort / sorted
RECURSIVE np_sort(_)
np_sort(a) ==
  IF a = <<>> THEN <<>> ELSE insert_sorted(Head(a), np_sort(Tail(a)))

\* np.percentile(a, q) * 100 for a non-empty a: linear interpolation between the
\* two order statistics around the virtual index q / 100 * (n - 1).
np_percentile(a, q) ==
  LET s  == np_sort(a)
      n  == Len(s)
      v  == q * (n - 1)
      lo == (v \div 100) + 1
      hi == IF lo < n THEN lo + 1 ELSE lo
  IN  100 * s[lo] + (v % 100) * (s[hi] - s[lo])

\* np.median(a) * 2 for a non-empty a.
np_median(a) ==
  LET s == np_sort(a)
      n == Len(s)
  IN  IF n % 2 = 1 THEN 2 * s[(n + 1) \div 2]
      ELSE s[n \div 2] + s[(n \div 2) + 1]

\* ------------------------------------------------------------------------
\* Pulse segmenter

\* binary = (envelope > threshold).astype(int)
binarise(env, pct) ==
  LET threshold == np_percentile(env, pct)
  IN  [i \in 1..Len(env) |-> IF 100 * env[i] > threshold THEN 1 ELSE 0]

\* The first difference of the binary sequence with no zero behind it.
np_diff_padded_front_only(binary) ==
  LET padded == <<0>> \o binary
  IN  [j \in 1..(Len(padded) - 1) |-> padded[j + 1] - padded[j]]

\* diff = np.diff(np.concatenate(([0], binary, [0])))
np_diff_padded(binary) ==
  LET padded == <<0>> \o binary \o <<0>>
  IN  [j \in 1..(Len(padded) - 1) |-> padded[j + 1] - padded[j]]

\* np.where(diff == value)[0]: the 0-based positions, ascending.
RECURSIVE np_where_from(_, _, _)
np_where_from(diff, value, j) ==
  IF j > Len(diff) THEN <<>>
  ELSE IF diff[j] = value THEN <<j - 1>> \o np_where_from(diff, value, j + 1)
  ELSE np_where_from(diff, value, j + 1)

np_where(diff, value) == np_where_from(diff, value, 1)

Min(a, b) == IF a <= b THEN a ELSE b

\* The pulse records, one for each (start, end) pair that zip gives.
pulse_records(starts, ends) ==
  [i \in 1..Min(Len(starts), Len(ends)) |->
     [start |-> starts[i], end |-> ends[i], duration |-> ends[i] - starts[i]]]

\* The gap list taken only from the third pulse on.
gap_list_from_three(start_times, end_times, n_pulses) ==
  IF n_pulses > 2
    THEN [i \in 1..(Len(start_times) - 1) |-> start_times[i + 1] - end_times[i]]
    ELSE <<>>

\* The gap list with the operands of the subtraction exchanged.
gap_list_reversed(start_times, end_times, n_pulses) ==
  IF n_pulses > 1
    THEN [i \in 1..(Len(start_times) - 1) |-> end_times[i] - start_times[i + 1]]
    ELSE <<>>

\* gaps = (start_times[1:] - end_times[:-1]) if len(pulses) > 1 else []
gap_list(start_times, end_times, n_pulses) ==
  IF n_pulses > 1
    THEN [i \in 1..(Len(start_times) - 1) |-> start_times[i + 1] - end_times[i]]
    ELSE <<>>

detect_pulses(env, pct) ==
  LET binary == binarise(env, pct)
      diff   == np_diff_padded(binary)
      starts == np_where(diff, 1)
      ends   == np_where(diff, -1)
      recs   == pulse_records(starts, ends)
  IN  [pulses |-> recs, gaps |-> gap_list(starts, ends, Len(recs))]

\* ------------------------------------------------------------------------
\* Symbol classifier

NAN == "nan"

\* The dot/dash symbol of one pulse. unit_time * 2 is the duration itself doubled
\* for a single pulse and median / 1.5 * 2 otherwise, so with median2 = 2 * median
\* the test duration < unit_time * 2 is 3 * duration < 2 * median2.
morse_symbol(duration, durations) ==
  IF Len(durations) < 2
    THEN IF duration < 2 * durations[1] THEN "." ELSE "-"
    ELSE IF 3 * duration < 2 * np_median(durations) THEN "." ELSE "-"

\* letter_threshold * 200 = p62 * 1.5 * 200, from the percentile kept times 100.
letter_threshold_of(gap_list_, pcts) == 3 * np_percentile(np_sort(gap_list_), pcts[1])

\* word_threshold * 200 = (p90 + p92) / 2 * 200.
word_threshold_of(gap_list_, pcts) ==
  np_percentile(np_sort(gap_list_), pcts[2]) + np_percentile(np_sort(gap_list_), pcts[3])

\* The loop of group_morse_symbols from gap i on; lt and wt are the thresholds
\* times 200.
RECURSIVE group_loop(_, _, _, _, _, _, _)
group_loop(symbols, gap_list_, lt, wt, i, current_letter, letters) ==
  IF i > Len(gap_list_) \/ i + 1 > Len(symbols)
    THEN Append(letters, current_letter)
  ELSE IF 200 * gap_list_[i] < lt
    THEN group_loop(symbols, gap_list_, lt, wt, i + 1,
                    current_letter \o symbols[i + 1], letters)
  ELSE IF 200 * gap_list_[i] < wt
    THEN group_loop(symbols, gap_list_, lt, wt, i + 1,
                    symbols[i + 1], Append(letters, current_letter))
  ELSE group_loop(symbols, gap_list_, lt, wt, i + 1,
                  symbols[i + 1], Append(Append(letters, current_letter), WORD_BREAK))

\* group_morse_symbols, were current_letter started empty instead of with the
\* first symbol.
group_morse_symbols_first_symbol_lost(symbols, gap_list_, pcts) ==
  IF symbols = <<>> THEN <<>>
  ELSE group_loop(symbols, gap_list_, letter_threshold_of(gap_list_, pcts),
                  word_threshold_of(gap_list_, pcts), 1, "", <<>>)

\* group_morse_symbols for a non-empty gap list.
group_morse_symbols(symbols, gap_list_, pcts) ==
  IF symbols = <<>> THEN <<>>
  ELSE group_loop(symbols, gap_list_, letter_threshold_of(gap_list_, pcts),
                  word_threshold_of(gap_list_, pcts), 1, symbols[1], <<>>)

\* The symbols classify_morse hands to group_morse_symbols.
morse_symbols(pulse_list) ==
  LET durations == [i \in 1..Len(pulse_list) |-> pulse_list[i].duration]
  IN  [i \in 1..Len(pulse_list) |-> morse_symbol(durations[i], durations)]

classify_morse(pulse_list, gap_list_, pcts) ==
  IF pulse_list = <<>> THEN <<>>
  ELSE group_morse_symbols(morse_symbols(pulse_list), gap_list_, pcts)

\* The dot/dash strings the decoder is fed in SpecDecode: every key of the three
\* tables, the word break, and codes no table holds.
UnknownCodes == {"......", "-.-.-.-.-.-", "----.-"}

TableCodes ==
  DOMAIN PROSIGNS_MORSE \cup DOMAIN MORSE_CODE_DICT_EN \cup DOMAIN MORSE_CODE_DICT_RU

Tokens == TableCodes \cup UnknownCodes \cup {WORD_BREAK}

\* One code of each kind: word break, letter of both tables, prosign that is also
\* a letter, prosign that is also punctuation, punctuation of the Latin table
\* only, Cyrillic-only letter, unknown.
SampleTokens == {WORD_BREAK, ".-", "..-.", ".-.-.", "-....-", "----", "......"}

\* ------------------------------------------------------------------------
\* Letter decoder

UNKNOWN_SYMBOL == <<"U+25A1">>

\* decode_token with the language table consulted before the prosign table.
decode_token_table_first(decoded_text, letter, morse_dict) ==
  IF letter = WORD_BREAK
    THEN IF decoded_text # <<>> /\ decoded_text[Len(decoded_text)] # <<" ">>
           THEN Append(decoded_text, <<" ">>)
           ELSE decoded_text
  ELSE IF letter \in DOMAIN morse_dict
    THEN Append(decoded_text, morse_dict[letter])
  ELSE IF letter \in DOMAIN PROSIGNS_MORSE
    THEN Append(decoded_text, PROSIGNS_MORSE[letter])
  ELSE Append(decoded_text, UNKNOWN_SYMBOL)

\* decode_token with every word break appended as a space.
decode_token_every_space(decoded_text, letter, morse_dict) ==
  IF letter = WORD_BREAK
    THEN Append(decoded_text, <<" ">>)
  ELSE IF letter \in DOMAIN PROSIGNS_MORSE
    THEN Append(decoded_text, PROSIGNS_MORSE[letter])
  ELSE IF letter \in DOMAIN morse_dict
    THEN Append(decoded_text, morse_dict[letter])
  ELSE Append(decoded_text, UNKNOWN_SYMBOL)

\* decode_token with an unknown code written as a bracketed tag.
decode_token_unknown_tag(decoded_text, letter, morse_dict) ==
  IF letter = WORD_BREAK
    THEN IF decoded_text # <<>> /\ decoded_text[Len(decoded_text)] # <<" ">>
           THEN Append(decoded_text, <<" ">>)
           ELSE decoded_text
  ELSE IF letter \in DOMAIN PROSIGNS_MORSE
    THEN Append(decoded_text, PROSIGNS_MORSE[letter])
  ELSE IF letter \in DOMAIN morse_dict
    THEN Append(decoded_text, morse_dict[letter])
  ELSE Append(decoded_text, <<"<", "?", ">">>)

\* One iteration of the loop of decode_morse over `letter`.
decode_token(decoded_text, letter, morse_dict) ==
  IF letter = WORD_BREAK
    THEN IF decoded_text # <<>> /\ decoded_text[Len(decoded_text)] # <<" ">>
           THEN Append(decoded_text, <<" ">>)
           ELSE decoded_text
  ELSE IF letter \in DOMAIN PROSIGNS_MORSE
    THEN Append(decoded_text, PROSIGNS_MORSE[letter])
  ELSE IF letter \in DOMAIN morse_dict
    THEN Append(decoded_text, morse_dict[letter])
  ELSE Append(decoded_text, UNKNOWN_SYMBOL)

RECURSIVE decode_loop(_, _, _)
decode_loop(decoded_text, letters, morse_dict) ==
  IF letters = <<>>
    THEN decoded_text
    ELSE decode_loop(decode_token(decoded_text, Head(letters), morse_dict),
                     Tail(letters), morse_dict)

\* ''.join(parts): the characters of the parts, in order.
RECURSIVE join(_)
join(parts) ==
  IF parts = <<>> THEN <<>> ELSE Head(parts) \o join(Tail(parts))

decode_morse(letters, language) ==
  LET morse_dict == IF language = "en" THEN MORSE_CODE_DICT_EN ELSE MORSE_CODE_DICT_RU
  IN  join(decode_loop(<<>>, letters, morse_dict))

\* ------------------------------------------------------------------------
\* Bounds and input sets

MaxTokens == 3

MaxSamples == 7

MaxPulses == 4

MaxMessage == 3

\* Envelope amplitudes: off, weak, strong.
Levels == {0, 1, 2}

\* Values of pulse_percentile: the default 85 and grid values of the tuner.
PulsePercentiles == {50, 70, 85}

\* Values of the three gap percentiles: the defaults and a tuple of the fast grid.
GapPercentiles == {<<62, 90, 92>>, <<55, 75, 90>>}

\* Pulse and gap lengths in samples drawn for the classifier on its own.
DurationValues == {1, 2, 3}

GapValues == {1, 3, 7}

\* ------------------------------------------------------------------------
\* Actions (the steps of process_file)

NONE == "none"

\* MorseDecoder.__init__, line 107: the sample rate audio is brought to, in Hz.
target_sample_rate == 8000

\* Python's round() of num / den, both non-negative: to the nearest integer,
\* a tie to the even one.
py_round(num, den) ==
  LET q == num \div den
      r == num % den
  IN  IF 2 * r > den THEN q + 1
      ELSE IF 2 * r < den THEN q
      ELSE IF q % 2 = 0 THEN q ELSE q + 1

\* The stats of a file without pulses, were the 'error' entry left out.
no_pulses_stats_without_error(n_samples) ==
  [wpm |-> 0, pulses |-> 0, duration |-> py_round(100 * n_samples, target_sample_rate),
   error |-> NONE]

\* process_file, lines 402-408: the stats of a file without pulses.  'duration'
\* is round(len(audio) / sample_rate, 2), kept in hundredths of a second.
no_pulses_stats(n_samples) ==
  [wpm |-> 0, pulses |-> 0, duration |-> py_round(100 * n_samples, target_sample_rate),
   error |-> "No pulses detected"]

\* process_file, lines 520-527: the stats both exception handlers return.
error_stats(error_message) ==
  [wpm |-> 0, pulses |-> 0, duration |-> 0, error |-> error_message]

\* The string of a sequence of dots and dashes.
RECURSIVE code_string(_)
code_string(symbols) ==
  IF symbols = <<>> THEN "" ELSE Head(symbols) \o code_string(Tail(symbols))

\* len(m) of a token of at most max_len dots and dashes.
token_length(m, max_len) ==
  CHOOSE n \in 0..max_len :
    \E symbols \in [1..n -> {".", "-"}] : code_string(symbols) = m

\* sum(len(m) for m in morse_letters if m != ' '), no token longer than max_len.
RECURSIVE total_dits_of(_, _)
total_dits_of(letters, max_len) ==
  IF letters = <<>> THEN 0
  ELSE (IF Head(letters) = WORD_BREAK THEN 0 ELSE token_length(Head(letters), max_len))
       + total_dits_of(Tail(letters), max_len)

\* process_file, lines 452-467: the stats of a decoded file.  'wpm' is
\* round((total_dits / 50) / (duration / 60), 1), kept in tenths; there is no
\* 'error' entry.
decode_stats(letters, pulse_list, n_samples) ==
  LET total_dits == total_dits_of(letters, Len(pulse_list))
  IN  [wpm |-> IF total_dits > 0 /\ n_samples > 0
               THEN py_round(10 * total_dits * 60 * target_sample_rate, 50 * n_samples)
               ELSE 0,
       pulses |-> Len(pulse_list),
       duration |-> py_round(100 * n_samples, target_sample_rate),
       error |-> NONE]

\* str(e) of the IndexError np.percentile raises on an empty list.
PERCENTILE_ERROR == "index -1 is out of bounds for axis 0 with size 0"

\* What np.percentile does on an empty list: nan or IndexError, by release.
NumpyReleases == {"nan", "raises"}

\* process_file, line 394: pulses, gaps = self.detect_pulses(envelope, sample_rate)
DetectPulses ==
  /\ pc = "envelope"
  /\ LET r == detect_pulses(envelope, pulse_percentile)
     IN  /\ pulses' = r.pulses
         /\ gaps' = r.gaps
  /\ pc' = "detected"
  /\ UNCHANGED <<envelope, pulse_percentile, gap_percentiles, letter_threshold,
                 word_threshold, morse_letters, text_en, text_ru, message, stats,
                 numpy_release, cache_vars, tuner_vars, score_vars,
                 batch_vars, analyzer_vars, last_call>>

\* process_file, lines 398-409: no pulses, the result carries an error.
NoPulses ==
  /\ pc = "detected"
  /\ pulses = <<>>
  /\ stats' = no_pulses_stats(Len(envelope))
  /\ pc' = "no_pulses"
  /\ UNCHANGED <<envelope, pulse_percentile, gap_percentiles, pulses, gaps,
                 letter_threshold, word_threshold, morse_letters, text_en, text_ru,
                 message,
                 numpy_release, cache_vars, tuner_vars, score_vars,
                 batch_vars, analyzer_vars, last_call>>

\* process_file, line 412, with at least one gap.
ClassifyMorse ==
  /\ pc = "detected"
  /\ pulses # <<>>
  /\ gaps # <<>>
  /\ letter_threshold' = letter_threshold_of(gaps, gap_percentiles)
  /\ word_threshold' = word_threshold_of(gaps, gap_percentiles)
  /\ morse_letters' = classify_morse(pulses, gaps, gap_percentiles)
  /\ pc' = "classified"
  /\ UNCHANGED <<envelope, pulse_percentile, gap_percentiles, pulses, gaps,
                 text_en, text_ru, message, stats,
                 numpy_release, cache_vars, tuner_vars, score_vars,
                 batch_vars, analyzer_vars, last_call>>

\* process_file, line 412, with one pulse and so no gap: np.percentile of the
\* empty gap list gives nan in some numpy releases, and the loop over the gaps
\* does nothing.
ClassifySinglePulse ==
  /\ pc = "detected"
  /\ numpy_release = "nan"
  /\ pulses # <<>>
  /\ gaps = <<>>
  /\ letter_threshold' = NAN
  /\ word_threshold' = NAN
  /\ morse_letters' = <<morse_symbols(pulses)[1]>>
  /\ pc' = "classified"
  /\ UNCHANGED <<envelope, pulse_percentile, gap_percentiles, pulses, gaps,
                 text_en, text_ru, message, stats,
                 numpy_release, cache_vars, tuner_vars, score_vars,
                 batch_vars, analyzer_vars, last_call>>

\* The same call where np.percentile raises IndexError on the empty gap list
\* (other numpy releases): process_file, lines 523-527, returns an error result.
ClassifyRaises ==
  /\ pc = "detected"
  /\ numpy_release = "raises"
  /\ pulses # <<>>
  /\ gaps = <<>>
  /\ stats' = error_stats(PERCENTILE_ERROR)
  /\ pc' = "error"
  /\ UNCHANGED <<envelope, pulse_percentile, gap_percentiles, pulses, gaps,
                 letter_threshold, word_threshold, morse_letters, text_en, text_ru,
                 message,
                 numpy_release, cache_vars, tuner_vars, score_vars,
                 batch_vars, analyzer_vars, last_call>>

\* process_file, lines 419-421: both decodings of the letter tokens.
DecodeMorse ==
  /\ pc = "classified"
  /\ text_en' = decode_morse(morse_letters, "en")
  /\ text_ru' = decode_morse(morse_letters, "ru")
  /\ pc' = "decoded"
  /\ UNCHANGED <<envelope, pulse_percentile, gap_percentiles, pulses, gaps,
                 letter_threshold, word_threshold, morse_letters, message, stats,
                 numpy_release, cache_vars, tuner_vars, score_vars,
                 batch_vars, analyzer_vars, last_call>>

\* process_file, lines 452-467 and 507-518: the stats, and the result returned.
ReturnResult ==
  /\ pc = "decoded"
  /\ stats' = decode_stats(morse_letters, pulses, Len(envelope))
  /\ pc' = "returned"
  /\ UNCHANGED <<envelope, pulse_percentile, gap_percentiles, pulses, gaps,
                 letter_threshold, word_threshold, morse_letters, text_en, text_ru,
                 message, numpy_release, cache_vars, tuner_vars, score_vars,
                 batch_vars, analyzer_vars, last_call>>

\* ------------------------------------------------------------------------
\* Initial values of the parts a specification leaves alone.

NoPipeline ==
  /\ envelope = <<>>
  /\ pulse_percentile = 85
  /\ gap_percentiles = <<62, 90, 92>>
  /\ pulses = <<>>
  /\ gaps = <<>>
  /\ letter_threshold = NONE
  /\ word_threshold = NONE
  /\ morse_letters = <<>>
  /\ text_en = NONE
  /\ text_ru = NONE
  /\ message = <<>>
  /\ pc = "idle"
  /\ stats = NONE

NoCache ==
  /\ cache = <<>>
  /\ worker = <<>>
  /\ reinserts = 0

NoTuner ==
  /\ tuning_file = NONE
  /\ mode = NONE
  /\ evaluated = <<>>
  /\ results = <<>>
  /\ best_score = NONE
  /\ best_result = NONE
  /\ result_index = 0
  /\ audio_loads = 0
  /\ tuner_pc = "idle"

NoBatch ==
  /\ wav_files = <<>>
  /\ workers = 0
  /\ futures = <<>>
  /\ file_calls = <<>>
  /\ file_reports = <<>>
  /\ batch_results = <<>>
  /\ completed_count = 0
  /\ batch_pc = "idle"

NoAnalyzer ==
  /\ analyzer_call = <<>>
  /\ analyzer_result = <<>>

NoScore ==
  /\ score_args = NONE
  /\ scores = NONE

\* ------------------------------------------------------------------------
\* The pipeline from an envelope on.

Envelopes == UNION {[1..n -> Levels] : n \in 1..MaxSamples}

Init ==
  /\ envelope \in Envelopes
  /\ pulse_percentile \in PulsePercentiles
  /\ gap_percentiles \in GapPercentiles
  /\ pc = "envelope"
  /\ pulses = <<>>
  /\ gaps = <<>>
  /\ letter_threshold = NONE
  /\ word_threshold = NONE
  /\ morse_letters = <<>>
  /\ text_en = NONE
  /\ text_ru = NONE
  /\ message = <<>>
  /\ stats = NONE
  /\ numpy_release \in NumpyReleases
  /\ NoCache
  /\ NoTuner
  /\ NoScore
  /\ NoBatch
  /\ NoAnalyzer
  /\ last_call = <<>>

Next ==
  \/ DetectPulses
  \/ NoPulses
  \/ ClassifyMorse
  \/ ClassifySinglePulse
  \/ ClassifyRaises
  \/ DecodeMorse
  \/ ReturnResult

Spec == Init /\ [][Next]_vars

\* ------------------------------------------------------------------------
\* The classifier from drawn pulses and gaps on.

\* Pulse records laid out from time 0 with the given durations and gaps.
RECURSIVE pulses_from(_, _, _)
pulses_from(durations, gap_list_, t) ==
  IF durations = <<>> THEN <<>>
  ELSE <<[start |-> t, end |-> t + Head(durations), duration |-> Head(durations)]>>
       \o (IF gap_list_ = <<>> THEN <<>>
           ELSE pulses_from(Tail(durations), Tail(gap_list_),
                            t + Head(durations) + Head(gap_list_)))

InitClassify ==
  /\ \E n \in 1..MaxPulses :
       \E durations \in [1..n -> DurationValues] :
         \E g \in [1..(n - 1) -> GapValues] :
           /\ pulses = pulses_from(durations, g, 0)
           /\ gaps = g
  /\ gap_percentiles \in GapPercentiles
  /\ pc = "detected"
  /\ envelope = <<>>
  /\ pulse_percentile = 85
  /\ letter_threshold = NONE
  /\ word_threshold = NONE
  /\ morse_letters = <<>>
  /\ text_en = NONE
  /\ text_ru = NONE
  /\ message = <<>>
  /\ stats = NONE
  /\ numpy_release \in NumpyReleases
  /\ NoCache
  /\ NoTuner
  /\ NoScore
  /\ NoBatch
  /\ NoAnalyzer
  /\ last_call = <<>>

NextClassify ==
  \/ ClassifyMorse
  \/ ClassifySinglePulse
  \/ ClassifyRaises
  \/ DecodeMorse

SpecClassify == InitClassify /\ [][NextClassify]_vars

\* ------------------------------------------------------------------------
\* The classifier and decoder on a message keyed with textbook timing:
\* dot 1 unit, dash 3, gap 1 inside a letter, 3 between letters, 7 between words.

KeyedChars == {"E", "T", "A", "N", "S", "O", "K", "C", "Q", "F", "1", "5"}

SymbolSeqs == UNION {[1..n -> {".", "-"}] : n \in 1..5}

\* The dots and dashes of a character: its code in the Latin table.
MorseOf ==
  [c \in KeyedChars |->
     CHOOSE symbols \in SymbolSeqs :
       /\ code_string(symbols) \in DOMAIN MORSE_CODE_DICT_EN
       /\ MORSE_CODE_DICT_EN[code_string(symbols)] = <<c>>]

Messages ==
  {m \in UNION {[1..n -> KeyedChars \cup {" "}] : n \in 1..MaxMessage} :
     /\ m[1] # " "
     /\ m[Len(m)] # " "
     /\ \A i \in 1..(Len(m) - 1) : ~(m[i] = " " /\ m[i + 1] = " ")}

RECURSIVE keyed_durations(_)
keyed_durations(m) ==
  IF m = <<>> THEN <<>>
  ELSE IF Head(m) = " " THEN keyed_durations(Tail(m))
  ELSE [i \in 1..Len(MorseOf[Head(m)]) |-> IF MorseOf[Head(m)][i] = "." THEN 1 ELSE 3]
       \o keyed_durations(Tail(m))

\* The gaps after each element of m: 1 inside a letter, 3 before the next letter,
\* 7 before the next word, none after the last element.
RECURSIVE keyed_gaps(_)
keyed_gaps(m) ==
  IF m = <<>> THEN <<>>
  ELSE IF Head(m) = " " THEN keyed_gaps(Tail(m))
  ELSE [i \in 1..(Len(MorseOf[Head(m)]) - 1) |-> 1]
       \o (IF Tail(m) = <<>> THEN <<>>
           ELSE IF Head(Tail(m)) = " " THEN <<7>>
           ELSE <<3>>)
       \o keyed_gaps(Tail(m))

InitKeying ==
  /\ message \in Messages
  /\ pulses = pulses_from(keyed_durations(message), keyed_gaps(message), 0)
  /\ gaps = keyed_gaps(message)
  /\ gap_percentiles = <<62, 90, 92>>
  /\ pc = "detected"
  /\ envelope = <<>>
  /\ pulse_percentile = 85
  /\ letter_threshold = NONE
  /\ word_threshold = NONE
  /\ morse_letters = <<>>
  /\ text_en = NONE
  /\ text_ru = NONE
  /\ stats = NONE
  /\ numpy_release \in NumpyReleases
  /\ NoCache
  /\ NoTuner
  /\ NoScore
  /\ NoBatch
  /\ NoAnalyzer
  /\ last_call = <<>>

SpecKeying == InitKeying /\ [][NextClassify]_vars

\* ------------------------------------------------------------------------
\* decode_morse on its own: any list of tokens.

TokenLists ==
  {<<t>> : t \in Tokens} \cup
  UNION {[1..n -> SampleTokens] : n \in 0..MaxTokens}

InitDecode ==
  /\ morse_letters \in TokenLists
  /\ pc = "classified"
  /\ envelope = <<>>
  /\ pulse_percentile = 85
  /\ gap_percentiles = <<62, 90, 92>>
  /\ pulses = <<>>
  /\ gaps = <<>>
  /\ letter_threshold = NONE
  /\ word_threshold = NONE
  /\ text_en = NONE
  /\ text_ru = NONE
  /\ message = <<>>
  /\ stats = NONE
  /\ numpy_release = "nan"
  /\ NoCache
  /\ NoTuner
  /\ NoScore
  /\ NoBatch
  /\ NoAnalyzer
  /\ last_call = <<>>

SpecDecode == InitDecode /\ [][DecodeMorse]_vars

\* ------------------------------------------------------------------------
\* Round trip on a keyed message (SpecKeying)

\* C1: a message over Latin letters and digits keyed with textbook timing and
\* classified with gap percentiles 62/90/92 decodes, with language 'en', to the
\* message itself, with no unknown symbol in it.
C1_RoundTrip ==
  (pc = "decoded" /\ gap_percentiles = <<62, 90, 92>>) =>
    /\ text_en = message
    /\ \A i \in 1..Len(text_en) : <<text_en[i]>> # UNKNOWN_SYMBOL

\* ------------------------------------------------------------------------
\* Properties of the pulse segmenter (Spec)

Segmented == pc # "envelope"

Max(a, b) == IF a >= b THEN a ELSE b

\* C2: detect_pulses returns max(0, pulses - 1) gaps, gap i lying between
\* pulse i and pulse i + 1.
C2_GapCount ==
  Segmented =>
    /\ Len(gaps) = Max(0, Len(pulses) - 1)
    /\ \A i \in 1..Len(gaps) : gaps[i] = pulses[i + 1].start - pulses[i].end

C2_Witness ==
  /\ pc = "detected"
  /\ Len(pulses) = 3
  /\ Len(gaps) = 2

\* The envelope is on at its last sample.
OnAtLastSample ==
  binarise(envelope, pulse_percentile)[Len(envelope)] = 1

\* C3: every pulse record has 0 <= start < end <= length of the audio and
\* duration = end - start, and a pulse still on at the last sample is closed at
\* the end of the buffer.
C3_PulseBounds ==
  Segmented =>
    /\ \A i \in 1..Len(pulses) :
         /\ 0 <= pulses[i].start
         /\ pulses[i].start < pulses[i].end
         /\ pulses[i].end <= Len(envelope)
         /\ pulses[i].duration = pulses[i].end - pulses[i].start
    /\ OnAtLastSample =>
         /\ pulses # <<>>
         /\ pulses[Len(pulses)].end = Len(envelope)

C3_Witness ==
  /\ pc = "detected"
  /\ OnAtLastSample
  /\ Len(pulses) >= 2
  /\ pulses[Len(pulses)].end = Len(envelope)
  /\ pulses[Len(pulses)].duration >= 2

\* C4: the pulses are ordered by start time and do not overlap, and no gap is
\* negative.
C4_OrderedNoOverlap ==
  Segmented =>
    /\ \A i \in 1..(Len(pulses) - 1) :
         /\ pulses[i].start < pulses[i + 1].start
         /\ pulses[i].end <= pulses[i + 1].start
    /\ \A i \in 1..Len(gaps) : gaps[i] >= 0

C4_Witness ==
  /\ pc = "detected"
  /\ Len(pulses) = 3
  /\ gaps[1] # gaps[2]

\* ------------------------------------------------------------------------
\* Properties of the symbol classifier (SpecClassify)

TwoDistinctGaps == \E i, j \in 1..Len(gaps) : gaps[i] # gaps[j]

\* C10: with at least two distinct gap values, letter_threshold < word_threshold
\* (both kept times 200).
C10_ThresholdOrder ==
  (pc = "classified" /\ TwoDistinctGaps) => letter_threshold < word_threshold

\* ------------------------------------------------------------------------
\* Properties of the letter decoder (SpecDecode)

Decoded == pc = "decoded"

LatinLetters ==
  {"A", "B", "C", "D", "E", "F", "G", "H", "I", "J", "K", "L", "M",
   "N", "O", "P", "Q", "R", "S", "T", "U", "V", "W", "X", "Y", "Z"}

Digits == {"0", "1", "2", "3", "4", "5", "6", "7", "8", "9"}

Punctuation ==
  {".", ",", "?", "'", "!", "/", "(", ")", "&", ":", ";", "=", "+", "-", "_",
   "\"", "$", "@"}

ProsignTexts == {PROSIGNS_MORSE[k] : k \in DOMAIN PROSIGNS_MORSE}

\* What the stated decision order gives for one token that is no word break.
OrderedLookup(letter, morse_dict) ==
  IF letter \in DOMAIN PROSIGNS_MORSE THEN PROSIGNS_MORSE[letter]
  ELSE IF letter \in DOMAIN morse_dict THEN morse_dict[letter]
  ELSE UNKNOWN_SYMBOL

RECURSIVE LookupAll(_, _)
LookupAll(letters, morse_dict) ==
  IF letters = <<>> THEN <<>>
  ELSE IF Head(letters) = WORD_BREAK THEN LookupAll(Tail(letters), morse_dict)
  ELSE OrderedLookup(Head(letters), morse_dict) \o LookupAll(Tail(letters), morse_dict)

IsNotSpace(c) == c # " "

IsSpace(c) == c = " "

\* The word breaks that directly follow a letter token.
BreaksAfterLetter(letters) ==
  {i \in 2..Len(letters) : letters[i] = WORD_BREAK /\ letters[i - 1] # WORD_BREAK}

FollowsOrder(text, letters, morse_dict) ==
  /\ SelectSeq(text, IsNotSpace) = LookupAll(letters, morse_dict)
  /\ Len(SelectSeq(text, IsSpace)) = Cardinality(BreaksAfterLetter(letters))

\* C5: decode_morse follows the decision order for every token: the characters
\* of the text other than spaces are, token by token, the prosign when the token
\* is in the prosign table (also when the language table holds it), else the
\* language table's entry, else the unknown symbol; and each word break that
\* follows a letter token gives one space.
C5_DecisionOrder ==
  Decoded =>
    /\ FollowsOrder(text_en, morse_letters, MORSE_CODE_DICT_EN)
    /\ FollowsOrder(text_ru, morse_letters, MORSE_CODE_DICT_RU)

C5_Witness ==
  /\ Decoded
  /\ morse_letters = <<"..-.", WORD_BREAK, "......">>
  /\ "..-." \in DOMAIN MORSE_CODE_DICT_EN \cap DOMAIN PROSIGNS_MORSE
  /\ text_en = <<"<", "I", "N", "T", ">", " ", "U+25A1">>

\* C6: the Morse code of every Latin letter and digit decodes, with
\* language 'en', to that character.
C6_LatinAndDigitsDecode ==
  Decoded =>
    \A k \in DOMAIN MORSE_CODE_DICT_EN :
      \A c \in LatinLetters \cup Digits :
        (morse_letters = <<k>> /\ MORSE_CODE_DICT_EN[k] = <<c>>) => text_en = <<c>>

IsShared(text) ==
  \/ text \in ProsignTexts
  \/ Len(text) = 1 /\ text[1] \in Digits \cup Punctuation

\* C7 as stated: a token decoding to a digit, a punctuation symbol or a prosign
\* under one language decodes to the same text under the other.
C7_SharedEntries ==
  (Decoded /\ Len(morse_letters) = 1) =>
    /\ IsShared(text_en) => text_ru = text_en
    /\ IsShared(text_ru) => text_en = text_ru

\* The punctuation codes only the Latin table holds: - _ " $ @
LatinOnlyPunctuation == {"-....-", "..--.-", ".-..-.", "...-..-", ".--.-."}

\* C7 amended: digits, prosigns and the punctuation of the Cyrillic table decode
\* alike under both languages; the five punctuation codes of LatinOnlyPunctuation
\* decode under 'en' only and give the unknown symbol under 'ru'.
C7_SharedEntriesAmended ==
  (Decoded /\ Len(morse_letters) = 1) =>
    /\ (IsShared(text_en) /\ morse_letters[1] \notin LatinOnlyPunctuation)
         => text_ru = text_en
    /\ IsShared(text_ru) => text_en = text_ru
    /\ morse_letters[1] \in LatinOnlyPunctuation
         => (IsShared(text_en) /\ text_ru = UNKNOWN_SYMBOL)

C7_Witness ==
  /\ Decoded
  /\ morse_letters = <<"-....-">>
  /\ text_en = <<"-">>
  /\ text_ru = UNKNOWN_SYMBOL

NoStraySpace(text) ==
  /\ text = <<>> \/ text[1] # " "
  /\ \A i \in 1..(Len(text) - 1) : ~(text[i] = " " /\ text[i + 1] = " ")

\* C8: the decoded text never starts with a space and never holds two adjacent
\* spaces, whatever word breaks the token list holds.
C8_SingleSpaces ==
  Decoded => (NoStraySpace(text_en) /\ NoStraySpace(text_ru))

C8_Witness ==
  /\ Decoded
  /\ morse_letters = <<WORD_BREAK, WORD_BREAK, ".-">>
  /\ text_en = <<"A">>

\* A prosign text starts at position i of text.
ProsignAt(text, i) ==
  \E p \in ProsignTexts :
    /\ i + Len(p) - 1 <= Len(text)
    /\ SubSeq(text, i, i + Len(p) - 1) = p

WellBracketed(text) ==
  /\ \A i \in 1..(Len(text) - 1) : ~(text[i] = "<" /\ text[i + 1] = ">")
  /\ \A i \in 1..Len(text) : text[i] = "<" => ProsignAt(text, i)

\* C9: the decoded text never holds "<>", and every "<" in it opens a <NAME>
\* whose text is a value of the prosign table.
C9_ProsignBrackets ==
  Decoded => (WellBracketed(text_en) /\ WellBracketed(text_ru))

C9_Witness ==
  /\ Decoded
  /\ morse_letters = <<".-.-.", "..-.">>
  /\ text_ru = <<"<", "A", "R", ">", "<", "I", "N", "T", ">">>

\* ------------------------------------------------------------------------
\* What process_file returns on degenerate inputs (Spec)

\* process_file has returned.
Returned == pc \in {"no_pulses", "error", "returned"}

\* A text without characters: Python's None or ''.
EmptyText(text) == text = NONE \/ text = <<>>

\* C11: when the segmenter finds no pulses, process_file returns a result
\* whose text is empty for both languages and whose stats report WPM 0,
\* 0 pulses and an 'error' entry.
C11_NoPulsesResult ==
  (Returned /\ pulses = <<>>) =>
    /\ EmptyText(text_en)
    /\ EmptyText(text_ru)
    /\ stats.wpm = 0
    /\ stats.pulses = 0
    /\ stats.error # NONE

\* A silent envelope has gone through detect_pulses and the result is back.
C11_Witness ==
  /\ Returned
  /\ pulses = <<>>
  /\ Len(envelope) > 1
  /\ \A i \in 1..Len(envelope) : envelope[i] = 0
  /\ stats.error = "No pulses detected"

\* C13: an input with exactly one pulse decodes to exactly one letter: the gap
\* list is empty, classify_morse returns a single letter token, and the decoded
\* text is a single character that is no word break, with no error in the stats.
C13_SinglePulse ==
  (Returned /\ Len(pulses) = 1) =>
    /\ gaps = <<>>
    /\ Len(morse_letters) = 1
    /\ morse_letters[1] # WORD_BREAK
    /\ text_en # NONE
    /\ Len(text_en) = 1
    /\ text_en[1] # " "
    /\ Len(text_ru) = 1
    /\ text_ru[1] # " "
    /\ stats.error = NONE

\* ------------------------------------------------------------------------
\* The parameter grids of the tuner (auto_tune_parameters, lines 142-170)

\* list(range(start, stop, step)) of Python, step > 0, were stop included.
py_range_stop_included(start, stop, step) ==
  [i \in 1..((stop - start) \div step + 1) |-> start + (i - 1) * step]

\* list(range(start, stop, step)) of Python, step > 0.
py_range(start, stop, step) ==
  [i \in 1..((stop - start + step - 1) \div step) |-> start + (i - 1) * step]

pulse_range(m) ==
  IF m = "fast" THEN <<60, 70, 80>>
  ELSE IF m = "thorough" THEN <<50, 60, 70, 75, 80, 85, 90>>
  ELSE py_range(40, 91, 5)

dot_dash_range(m) ==
  IF m = "fast" THEN <<55, 60>>
  ELSE IF m = "thorough" THEN <<50, 55, 60, 65>>
  ELSE py_range(50, 71, 3)

char_range(m) ==
  IF m = "fast" THEN <<75, 85>>
  ELSE IF m = "thorough" THEN <<70, 75, 80, 85, 90>>
  ELSE py_range(70, 94, 3)

word_range(m) ==
  IF m = "fast" THEN <<90>>
  ELSE IF m = "thorough" THEN <<85, 90, 92, 94>>
  ELSE py_range(85, 96, 2)

\* list(itertools.product(a, b, c, d)): every tuple, the last position
\* changing fastest.
itertools_product(a, b, c, d) ==
  [n \in 1..(Len(a) * Len(b) * Len(c) * Len(d)) |->
     <<a[((n - 1) \div (Len(b) * Len(c) * Len(d))) + 1],
       b[(((n - 1) \div (Len(c) * Len(d))) % Len(b)) + 1],
       c[(((n - 1) \div Len(d)) % Len(c)) + 1],
       d[((n - 1) % Len(d)) + 1]>>]

\* auto_tune_parameters, lines 165-170.
combinations(m) ==
  itertools_product(pulse_range(m), dot_dash_range(m), char_range(m), word_range(m))

\* ------------------------------------------------------------------------
\* process_file as a whole, on a file

\* A file is the envelope load_audio, bandpass_filter and envelope_detection
\* make of it, or the reason loading it fails.
audio_file(env) == [kind |-> "audio", envelope |-> env]

MISSING == [kind |-> "missing", envelope |-> <<>>]

UNREADABLE == [kind |-> "unreadable", envelope |-> <<>>]

\* str(e) of the exception load_audio raises on a file that is no WAV file.
LOAD_ERROR == "File format not understood"

\* The result tuple (text_en, text_ru, stats).
result_tuple(en, ru, stats_) == [text_en |-> en, text_ru |-> ru, stats |-> stats_]

\* process_file, lines 411-508, for the letters classify_morse made: the tuple
\* built at line 508.
decoded_run(letters, pulse_list, n_samples) ==
  [exception |-> NONE, error_message |-> "", returned |-> FALSE,
   result |-> result_tuple(decode_morse(letters, "en"),
                           decode_morse(letters, "ru"),
                           decode_stats(letters, pulse_list, n_samples))]

\* process_file, lines 396-508, for the pulses and gaps r that detect_pulses
\* made of n_samples samples.
segmented_run(r, n_samples, pcts, release) ==
  IF r.pulses = <<>>
  THEN [exception |-> NONE, error_message |-> "", returned |-> TRUE,
        result |-> result_tuple(NONE, NONE, no_pulses_stats(n_samples))]
  ELSE IF r.gaps = <<>> /\ release = "raises"
  THEN [exception |-> "IndexError", error_message |-> PERCENTILE_ERROR,
        returned |-> FALSE, result |-> NONE]
  ELSE
    CHOOSE run \in
      {decoded_run(letters, r.pulses, n_samples) :
         letters \in {IF r.gaps = <<>> THEN <<morse_symbols(r.pulses)[1]>>
                      ELSE classify_morse(r.pulses, r.gaps, pcts)}} : TRUE

\* process_file, lines 377-506, for the parameter tuple <<pulse, dot_dash,
\* char, word>>: the exception raised inside the try block, or the tuple
\* returned at line 409 (returned = TRUE), or the tuple built at line 508.
\* Each stage is computed once and handed on.
run_pipeline(file, params, release) ==
  IF file.kind = "missing"
  THEN [exception |-> "FileNotFoundError", error_message |-> "", returned |-> FALSE,
        result |-> NONE]
  ELSE IF file.kind = "unreadable"
  THEN [exception |-> "ValueError", error_message |-> LOAD_ERROR, returned |-> FALSE,
        result |-> NONE]
  ELSE
    CHOOSE run \in
      {segmented_run(r, Len(file.envelope), <<params[2], params[3], params[4]>>, release) :
         r \in {detect_pulses(file.envelope, params[1])}} : TRUE

\* The exception handlers, were there none but the one for FileNotFoundError.
except_clauses_file_not_found_only(exception, error_message) ==
  IF exception = "FileNotFoundError"
  THEN [pc |-> "returned",
        result |-> <<result_tuple(NONE, NONE, error_stats("File not found"))>>]
  ELSE [pc |-> "raised", result |-> <<>>]

\* process_file, lines 520-527: where an exception raised inside the try block
\* leaves the call, and the tuple returned (<<>> when nothing is returned).
except_clauses(exception, error_message) ==
  IF exception = "FileNotFoundError"
  THEN [pc |-> "returned",
        result |-> <<result_tuple(NONE, NONE, error_stats("File not found"))>>]
  ELSE [pc |-> "returned",
        result |-> <<result_tuple(NONE, NONE, error_stats(error_message))>>]

\* ------------------------------------------------------------------------
\* The result cache (_DECODE_CACHE, a dict: entries keep insertion order)

\* morse_decoder.py, line 83
_CACHE_MAX_SIZE == 100

dict_keys(d) == {d[i].key : i \in DOMAIN d}

dict_get(d, k) == d[CHOOSE i \in DOMAIN d : d[i].key = k].value

dict_del(d, k) == SelectSeq(d, LAMBDA e : e.key # k)

\* d[k] = v: a present key keeps its place, a new one goes last.
dict_set(d, k, v) ==
  IF k \in dict_keys(d)
  THEN [i \in DOMAIN d |-> IF d[i].key = k THEN [key |-> k, value |-> v] ELSE d[i]]
  ELSE Append(d, [key |-> k, value |-> v])

\* The key inserted last.
last_key_of(d) == d[Len(d)].key

\* next(iter(d)): the key inserted first among those present.
first_key_of(d) == d[1].key

\* _get_file_params_hash: one key per file and parameter tuple (language and
\* analyze_procedural are the same in every call of the tuner).
cache_key_of(f, params) == [file |-> f, params |-> params]

\* ------------------------------------------------------------------------
\* Calls of process_file on the files of a folder, as the batch command and
\* the fast tuner make them (morse_cli.py cmd_batch, auto_tune_parameters)

NumFiles == 12

MaxReinserts == 1

MaxThreadCalls == 2

Headroom == 1

SILENT_FILE == audio_file(<<0, 0, 0, 0>>)

\* Two pulses of one sample, three samples apart.
MORSE_FILE_A == audio_file(<<0, 0, 1, 0, 0, 0, 2, 0, 0, 0, 0>>)

\* A pulse of two samples and one of one sample, one sample apart.
MORSE_FILE_B == audio_file(<<0, 2, 2, 0, 2, 0, 0, 0, 0, 0, 0, 0, 0, 0, 0, 0>>)

\* The folder: a file that is not there, one that is no audio, a silent one,
\* then recordings.
FolderFile(f) ==
  IF f = 1 THEN MISSING
  ELSE IF f = 2 THEN UNREADABLE
  ELSE IF f = 3 THEN SILENT_FILE
  ELSE IF f % 2 = 0 THEN MORSE_FILE_A
  ELSE MORSE_FILE_B

\* The tuples of the fast grid, in grid order.
FastCombinations == combinations("fast")

\* The calls of the fast tuner on file f, in grid order.
file_keys(f) ==
  [i \in DOMAIN FastCombinations |-> cache_key_of(f, FastCombinations[i])]

\* The calls of a sequential batch run over files first..last.
RECURSIVE batch_keys(_, _)
batch_keys(first, last) ==
  IF first > last THEN <<>> ELSE file_keys(first) \o batch_keys(first + 1, last)

\* The calls of a sequential batch run over the folder.
AllKeys == batch_keys(1, NumFiles)

\* The cache after a sequential batch run over the folder: the entries of
\* the calls that reached line 516, in the order of the calls, the oldest
\* ones evicted; with room for `room` more entries.
cache_after_batch(release, room) ==
  LET decoded_keys ==
        SelectSeq(AllKeys,
                  LAMBDA k : LET r == run_pipeline(FolderFile(k.file), k.params, release)
                             IN  r.exception = NONE /\ ~r.returned)
      entries ==
        [i \in DOMAIN decoded_keys |->
           [key |-> decoded_keys[i],
            value |-> run_pipeline(FolderFile(decoded_keys[i].file),
                                   decoded_keys[i].params, release).result]]
  IN  SubSeq(entries, Len(entries) - (_CACHE_MAX_SIZE - room) + 1, Len(entries))

\* A thread between two calls.  decoded is the local 'result' of line 508
\* and result the tuple the call returns, each <<>> until it is there.
idle_worker(key_list) ==
  [pc |-> "idle", key |-> <<>>, first_key |-> <<>>, decoded |-> <<>>,
   exception |-> NONE, result |-> <<>>, todo |-> key_list]

Threads == DOMAIN worker

\* What every step of process_file on a file of the folder leaves alone.
OnlyCache ==
  UNCHANGED <<pipeline_vars, numpy_release, tuner_vars, score_vars, batch_vars,
              analyzer_vars, last_call>>

\* The caller makes its next call of process_file.
NextCall(t) ==
  /\ worker[t].pc \in {"idle", "returned"}
  /\ worker[t].todo # <<>>
  /\ worker' = [worker EXCEPT ![t] =
                  [idle_worker(Tail(worker[t].todo)) EXCEPT
                     !.pc = "cache_check", !.key = <<Head(worker[t].todo)>>]]
  /\ UNCHANGED <<cache, reinserts>>
  /\ OnlyCache

\* Files that are tuned again after the batch run has handled them: the
\* missing one, the silent one and the first recording.
RepeatFiles == {1, 3, 4}

\* The keys the caller may ask for again: the oldest and the newest entry of
\* the cache, and the first call for a file of RepeatFiles.
RepeatKeys(t) ==
  (IF cache = <<>> THEN {} ELSE {first_key_of(cache), last_key_of(cache)})
  \cup {file_keys(f)[1] : f \in {g \in RepeatFiles :
           (g - 1) * Len(FastCombinations) < Len(AllKeys) - Len(worker[t].todo)}}

\* The caller calls process_file again for a key of an earlier call.
RepeatCall(t) ==
  /\ worker[t].pc \in {"idle", "returned"}
  /\ \E k \in RepeatKeys(t) :
       /\ k \notin dict_keys(cache) => reinserts < MaxReinserts
       /\ reinserts' = IF k \in dict_keys(cache) THEN reinserts ELSE reinserts + 1
       /\ worker' = [worker EXCEPT ![t] =
                       [idle_worker(worker[t].todo) EXCEPT
                          !.pc = "cache_check", !.key = <<k>>]]
  /\ UNCHANGED cache
  /\ OnlyCache

\* process_file, line 365: if cache_key in _DECODE_CACHE
CacheCheck(t) ==
  /\ worker[t].pc = "cache_check"
  /\ worker' = [worker EXCEPT ![t].pc =
                  IF worker[t].key[1] \in dict_keys(cache) THEN "cache_read" ELSE "decode"]
  /\ UNCHANGED <<cache, reinserts>>
  /\ OnlyCache

\* process_file, line 370: return _DECODE_CACHE[cache_key], outside the try
\* block: a KeyError goes to the caller.
CacheRead(t) ==
  /\ worker[t].pc = "cache_read"
  /\ worker' = [worker EXCEPT ![t] =
                  IF worker[t].key[1] \in dict_keys(cache)
                  THEN [worker[t] EXCEPT !.pc = "returned",
                                         !.result = <<dict_get(cache, worker[t].key[1])>>]
                  ELSE [worker[t] EXCEPT !.pc = "raised", !.exception = "KeyError"]]
  /\ UNCHANGED <<cache, reinserts>>
  /\ OnlyCache

\* process_file, lines 377-508: loading, filtering, segmentation,
\* classification, decoding and the stats, none of which touches the cache.
Decode(t) ==
  /\ worker[t].pc = "decode"
  /\ LET r == run_pipeline(FolderFile(worker[t].key[1].file), worker[t].key[1].params,
                           numpy_release)
     IN  worker' = [worker EXCEPT ![t] =
           IF r.exception # NONE
           THEN [worker[t] EXCEPT
                   !.exception = r.exception,
                   !.pc = except_clauses(r.exception, r.error_message).pc,
                   !.result = except_clauses(r.exception, r.error_message).result]
           ELSE IF r.returned
           THEN [worker[t] EXCEPT !.pc = "returned", !.result = <<r.result>>]
           ELSE [worker[t] EXCEPT !.pc = "size_check", !.decoded = <<r.result>>]]
  /\ UNCHANGED <<cache, reinserts>>
  /\ OnlyCache

\* process_file, line 511: if len(_DECODE_CACHE) >= _CACHE_MAX_SIZE
SizeCheck(t) ==
  /\ worker[t].pc = "size_check"
  /\ worker' = [worker EXCEPT ![t].pc =
                  IF Len(cache) >= _CACHE_MAX_SIZE THEN "first_key" ELSE "insert"]
  /\ UNCHANGED <<cache, reinserts>>
  /\ OnlyCache

\* process_file, line 513: first_key = next(iter(_DECODE_CACHE))
FirstKey(t) ==
  /\ worker[t].pc = "first_key"
  /\ worker' = [worker EXCEPT ![t] =
                  IF cache # <<>>
                  THEN [worker[t] EXCEPT !.pc = "evict", !.first_key = <<first_key_of(cache)>>]
                  ELSE [worker[t] EXCEPT
                          !.exception = "StopIteration",
                          !.pc = except_clauses("StopIteration", "").pc,
                          !.result = except_clauses("StopIteration", "").result]]
  /\ UNCHANGED <<cache, reinserts>>
  /\ OnlyCache

\* process_file, line 514: del _DECODE_CACHE[first_key]
Evict(t) ==
  /\ worker[t].pc = "evict"
  /\ IF worker[t].first_key[1] \in dict_keys(cache)
     THEN /\ cache' = dict_del(cache, worker[t].first_key[1])
          /\ worker' = [worker EXCEPT ![t].pc = "insert"]
     ELSE /\ cache' = cache
          /\ worker' = [worker EXCEPT ![t] =
               [worker[t] EXCEPT
                  !.exception = "KeyError",
                  !.pc = except_clauses("KeyError", "key").pc,
                  !.result = except_clauses("KeyError", "key").result]]
  /\ UNCHANGED reinserts
  /\ OnlyCache

\* process_file, lines 516-518: _DECODE_CACHE[cache_key] = result; return result
Insert(t) ==
  /\ worker[t].pc = "insert"
  /\ cache' = dict_set(cache, worker[t].key[1], worker[t].decoded[1])
  /\ worker' = [worker EXCEPT ![t].pc = "returned", ![t].result = worker[t].decoded]
  /\ UNCHANGED reinserts
  /\ OnlyCache

\* ------------------------------------------------------------------------
\* One caller, from an empty cache: a sequential batch run over the folder,
\* with files tuned again in between.

InitCache ==
  /\ cache = <<>>
  /\ worker = <<idle_worker(batch_keys(1, NumFiles))>>
  /\ reinserts = 0
  /\ numpy_release \in NumpyReleases
  /\ NoPipeline
  /\ NoTuner
  /\ NoScore
  /\ NoBatch
  /\ NoAnalyzer
  /\ last_call = <<>>

NextCache ==
  \/ NextCall(1)
  \/ RepeatCall(1)
  \/ CacheCheck(1)
  \/ CacheRead(1)
  \/ Decode(1)
  \/ SizeCheck(1)
  \/ FirstKey(1)
  \/ Evict(1)
  \/ Insert(1)

SpecCache == InitCache /\ [][NextCache]_vars

\* ------------------------------------------------------------------------
\* Two worker threads of the batch command, each tuning a file of its own,
\* with the cache nearly full from the files handled before.

\* Files the two threads may be working on.
ThreadFiles == {1, 2, 3, NumFiles + 1, NumFiles + 2}

InitBatchThreads ==
  /\ numpy_release \in NumpyReleases
  /\ cache = cache_after_batch(numpy_release, Headroom)
  /\ \E f1 \in ThreadFiles, f2 \in ThreadFiles :
       /\ f1 # f2
       /\ worker = <<idle_worker(SubSeq(file_keys(f1), 1, MaxThreadCalls)),
                     idle_worker(SubSeq(file_keys(f2), 1, MaxThreadCalls))>>
  /\ reinserts = 0
  /\ NoPipeline
  /\ NoTuner
  /\ NoScore
  /\ NoBatch
  /\ NoAnalyzer
  /\ last_call = <<>>

NextBatchThreads ==
  \E t \in Threads :
    \/ NextCall(t)
    \/ CacheCheck(t)
    \/ Decode(t)
    \/ SizeCheck(t)
    \/ FirstKey(t)
    \/ Evict(t)
    \/ Insert(t)

SpecBatchThreads == InitBatchThreads /\ [][NextBatchThreads]_vars

\* ------------------------------------------------------------------------
\* The tuner (auto_tune.py)

\* text.count('U+25A1').
str_count(text, c) == Len(SelectSeq(text, LAMBDA x : x = c))

\* A score or ratio is kept as the exact fraction num / den; Python computes
\* it in floating point.
fraction(num_, den_) == [num |-> num_, den |-> den_]

\* -float('inf'), line 180: below every score.
NEG_INF == fraction(-1, 0)

\* a < b on fractions.
score_lt(a, b) == a.num * b.den < b.num * a.den

\* a > b on fractions (line 218).
score_gt(a, b) == a.num * b.den > b.num * a.den

\* The lengths of the four code lists calculate_quality_score reads.
code_counts(q, z, p, c) == [q_codes |-> q, z_codes |-> z, prosigns |-> p, callsigns |-> c]

\* calculate_quality_score with the share of unknown characters added
\* instead of subtracted.
calculate_quality_score_penalty_as_bonus(text, stats_, codes_analysis) ==
  IF text = <<>> THEN fraction(0, 1)
  ELSE
    LET text_length == Len(text)
        error_marks == str_count(text, UNKNOWN_SYMBOL[1])
        total_codes == codes_analysis.q_codes + codes_analysis.z_codes
                       + codes_analysis.prosigns + codes_analysis.callsigns
    IN  fraction(Min(text_length, 1000) * text_length
                 + 2000 * error_marks
                 + 100 * total_codes * text_length
                 + 50 * codes_analysis.callsigns * text_length
                 + (IF 50 <= stats_.wpm /\ stats_.wpm <= 400
                    THEN 200 * text_length ELSE -300 * text_length),
                 10 * text_length)

\* calculate_quality_score, lines 20-62.  With L = len(text) the score is
\* min(L / 10, 100) - (error_marks / L) * 200 + total_codes * 10
\* + callsigns * 5 + (20 if 5 <= wpm <= 40 else -30), here over the
\* denominator 10 * L; stats_.wpm is in tenths.
calculate_quality_score(text, stats_, codes_analysis) ==
  IF text = <<>> THEN fraction(0, 1)
  ELSE
    LET text_length == Len(text)
        error_marks == str_count(text, UNKNOWN_SYMBOL[1])
        total_codes == codes_analysis.q_codes + codes_analysis.z_codes
                       + codes_analysis.prosigns + codes_analysis.callsigns
    IN  fraction(Min(text_length, 1000) * text_length
                 - 2000 * error_marks
                 + 100 * total_codes * text_length
                 + 50 * codes_analysis.callsigns * text_length
                 + (IF 50 <= stats_.wpm /\ stats_.wpm <= 400
                    THEN 200 * text_length ELSE -300 * text_length),
                 10 * text_length)

\* ProceduralCodeDetector.detect_codes on the texts of the files below: none
\* of them holds a word of the Q or Z tables, a bracketed prosign or a digit,
\* so the four lists are empty.
detect_codes(text) == code_counts(0, 0, 0, 0)

\* What process_file returns for the parameter tuple: the tuple of the
\* pipeline, or the one the exception handlers make.  Every tuple of a grid
\* is a cache key of its own, so no call of the tuner is a cache hit.
process_file(file, params, release) ==
  LET run == run_pipeline(file, params, release)
  IN  IF run.exception # NONE
      THEN except_clauses(run.exception, run.error_message).result[1]
      ELSE run.result

\* The result dict of lines 93-107.
result_dict(params, best_text, r, codes, score_) ==
  [params |-> [pulse |-> params[1], dot_dash |-> params[2],
               char |-> params[3], word |-> params[4]],
   text |-> best_text,
   text_en |-> r.text_en,
   text_ru |-> r.text_ru,
   stats |-> r.stats,
   codes |-> codes,
   score |-> score_,
   question_ratio |-> IF best_text # <<>>
                      THEN fraction(str_count(best_text, UNKNOWN_SYMBOL[1]), Len(best_text))
                      ELSE fraction(1, 1)]

\* Lines 84-107 for the tuple r that process_file returned, were a failed call
\* of process_file reported as a result with an empty text.
test_result_failure_as_result(params, r) ==
  IF r.text_en = NONE
  THEN <<result_dict(params, <<>>, result_tuple(<<>>, <<>>, r.stats),
                     detect_codes(<<>>), fraction(0, 1))>>
  ELSE
    LET best_text == IF Len(r.text_en) > Len(r.text_ru) THEN r.text_en ELSE r.text_ru
        codes == detect_codes(r.text_en)
    IN  <<result_dict(params, best_text, r, codes,
                      calculate_quality_score(best_text, r.stats, codes))>>

\* Lines 84-107, were the English text kept when the two are equally long
\* (len(text_en) >= len(text_ru) at line 84).
test_result_english_on_tie(params, r) ==
  IF r.text_en = NONE
  THEN <<>>
  ELSE
    LET best_text == IF Len(r.text_en) >= Len(r.text_ru) THEN r.text_en ELSE r.text_ru
        codes == detect_codes(r.text_en)
    IN  <<result_dict(params, best_text, r, codes,
                      calculate_quality_score(best_text, r.stats, codes))>>

\* Lines 84-120 for the tuple r that process_file returned: <<the result
\* dict>>, or <<>> for None.  After a failed process_file both texts are None
\* and len(text_en) raises TypeError, which line 117 turns into None.
test_result(params, r) ==
  IF r.text_en = NONE
  THEN <<>>
  ELSE
    LET best_text == IF Len(r.text_en) > Len(r.text_ru) THEN r.text_en ELSE r.text_ru
        codes == detect_codes(r.text_en)
    IN  <<result_dict(params, best_text, r, codes,
                      calculate_quality_score(best_text, r.stats, codes))>>

\* test_parameter_combination, lines 69-120; process_file is called once.
test_parameter_combination(file, params, release) ==
  CHOOSE result \in {test_result(params, r) : r \in {process_file(file, params, release)}} :
    TRUE

Modes == {"fast", "thorough", "extreme"}

\* Line 174.
use_parallel(m) == m \in {"thorough", "extreme"} /\ Len(combinations(m)) > 50

\* Recordings given to the tuner.  In the second the pulse percentile 60 sees
\* two pulses, 70 sees three (one letter, or two letters a word apart) and 80
\* sees none; in the third the lower pulse percentiles see a single pulse and
\* the highest sees two.  No grid makes more than four pulses of any of the
\* files.
TUNER_FILE_LEVELS == audio_file(<<2, 1, 0, 2, 0, 0, 1, 2, 0, 2>>)

TUNER_FILE_WORDS == audio_file(<<0, 2, 0, 0, 0, 0, 2, 1, 2>>)

TUNER_FILE_MERGED == audio_file(<<2, 1, 2, 0, 0, 0, 0, 0, 0, 0>>)

\* The files tried in a mode.
TunerFiles(m) ==
  IF m = "fast"
  THEN {MISSING, UNREADABLE, SILENT_FILE, MORSE_FILE_A, TUNER_FILE_LEVELS,
        TUNER_FILE_WORDS, TUNER_FILE_MERGED}
  ELSE IF m = "thorough" THEN {MORSE_FILE_A, TUNER_FILE_WORDS, TUNER_FILE_MERGED}
  ELSE {TUNER_FILE_WORDS, TUNER_FILE_MERGED}

OnlyTuner ==
  UNCHANGED <<pipeline_vars, numpy_release, cache_vars, score_vars, batch_vars,
              analyzer_vars, last_call>>

\* Lines 206-215: one iteration of the sequential loop.  The call builds a
\* MorseDecoder of its own (lines 74-79) and runs process_file on the path:
\* the tuple is a cache key no earlier call stored, so load_audio,
\* bandpass_filter and envelope_detection run again (lines 379-389).
TestNext ==
  /\ tuner_pc = "evaluate"
  /\ ~use_parallel(mode)
  /\ LET args_list == combinations(mode)
         args == args_list[Len(results) + 1]
     IN  /\ results' = Append(results,
                              test_parameter_combination(tuning_file, args, numpy_release))
         /\ evaluated' = Append(evaluated, args)
         /\ audio_loads' = audio_loads + 1
         /\ tuner_pc' = IF Len(results) + 1 = Len(args_list) THEN "select" ELSE "evaluate"
  /\ UNCHANGED <<tuning_file, mode, best_score, best_result, result_index>>
  /\ OnlyTuner

\* Lines 189-204: pool.imap hands every tuple to a worker process and yields
\* the results in the order of args_list; each call loads the file anew.
PoolMap ==
  /\ tuner_pc = "evaluate"
  /\ use_parallel(mode)
  /\ LET args_list == combinations(mode)
     IN  /\ results' = [i \in DOMAIN args_list |->
                          test_parameter_combination(tuning_file, args_list[i], numpy_release)]
         /\ evaluated' = args_list
         /\ audio_loads' = audio_loads + Len(args_list)
  /\ tuner_pc' = "select"
  /\ UNCHANGED <<tuning_file, mode, best_score, best_result, result_index>>
  /\ OnlyTuner

\* Lines 217-221: one iteration of the loop over results.
SelectNext ==
  /\ tuner_pc = "select"
  /\ result_index < Len(results)
  /\ LET result == results[result_index + 1]
     IN  IF result # <<>> /\ score_gt(result[1].score, best_score)
         THEN /\ best_score' = result[1].score
              /\ best_result' = result
         ELSE UNCHANGED <<best_score, best_result>>
  /\ result_index' = result_index + 1
  /\ UNCHANGED <<tuning_file, mode, evaluated, results, audio_loads, tuner_pc>>
  /\ OnlyTuner

\* Lines 223-262: the report, save_results and return best_result (<<>> is
\* None).
TunerReturn ==
  /\ tuner_pc = "select"
  /\ result_index = Len(results)
  /\ tuner_pc' = "returned"
  /\ UNCHANGED <<tuning_file, mode, evaluated, results, best_score, best_result,
                 result_index, audio_loads>>
  /\ OnlyTuner

InitTuner ==
  /\ numpy_release \in NumpyReleases
  /\ mode \in Modes
  /\ tuning_file \in TunerFiles(mode)
  /\ evaluated = <<>>
  /\ results = <<>>
  /\ best_score = NEG_INF
  /\ best_result = <<>>
  /\ result_index = 0
  /\ audio_loads = 0
  /\ tuner_pc = "evaluate"
  /\ NoPipeline
  /\ NoCache
  /\ NoScore
  /\ NoBatch
  /\ NoAnalyzer
  /\ last_call = <<>>

NextTuner ==
  \/ TestNext
  \/ PoolMap
  \/ SelectNext
  \/ TunerReturn

SpecTuner == InitTuner /\ [][NextTuner]_vars

\* ------------------------------------------------------------------------
\* The selection loop on a recording given by what classify_morse makes of
\* it (SpecSelect)

MaxRecordings == 2

\* Lengths of a recording in samples: multiples of 1.2 s at 8000 Hz.
RecordingLengths == {9600 * k : k \in 1..MaxRecordings}

\* The letters classify_morse returns for one pulse percentile; <<>> when
\* detect_pulses finds no pulse.
LetterLists ==
  {<<>>, <<".", "......", ".", ".">>, <<".", ".", ".", ".">>, <<".", ".">>, <<"-", ".">>}

\* n pulses one sample long, one sample apart.
dot_pulses(n) == pulses_from([i \in 1..n |-> 1], [i \in 1..(n - 1) |-> 1], 0)

\* What process_file returns when classify_morse makes `letters` of a
\* recording of n_samples samples.
letters_result(letters, n_samples) ==
  IF letters = <<>>
  THEN result_tuple(NONE, NONE, no_pulses_stats(n_samples))
  ELSE decoded_run(letters, dot_pulses(total_dits_of(letters, 6)), n_samples).result

\* The results of the fast grid when the pulse percentiles 60, 70 and 80 give
\* the letters by_pulse[1], by_pulse[2] and by_pulse[3], whatever the gap
\* percentiles.
letters_results(by_pulse, n_samples) ==
  [i \in DOMAIN FastCombinations |->
     CHOOSE result \in
       {test_result(FastCombinations[i], r) :
          r \in {letters_result(by_pulse[((i - 1) \div 4) + 1], n_samples)}} : TRUE]

InitSelect ==
  /\ numpy_release \in NumpyReleases
  /\ mode = "fast"
  /\ tuning_file = NONE
  /\ evaluated = FastCombinations
  /\ \E by_pulse \in [1..3 -> LetterLists], n_samples \in RecordingLengths :
       \* A percentile that leaves no sample above the threshold leaves none
       \* at a higher percentile either.
       /\ \A k \in 1..2 : by_pulse[k] = <<>> => by_pulse[k + 1] = <<>>
       /\ results = letters_results(by_pulse, n_samples)
  /\ best_score = NEG_INF
  /\ best_result = <<>>
  /\ result_index = 0
  /\ audio_loads = Len(FastCombinations)
  /\ tuner_pc = "select"
  /\ NoPipeline
  /\ NoCache
  /\ NoScore
  /\ NoBatch
  /\ NoAnalyzer
  /\ last_call = <<>>

NextSelect ==
  \/ SelectNext
  \/ TunerReturn

SpecSelect == InitSelect /\ [][NextSelect]_vars

\* ------------------------------------------------------------------------
\* calculate_quality_score on two texts (SpecScore)

MaxText == 3

ScoreChars == {"E", UNKNOWN_SYMBOL[1]}

ScoreTexts == UNION {[1..n -> ScoreChars] : n \in 0..MaxText}

\* stats['wpm'] in tenths: below, at and above the two limits.
ScoreWpm == {0, 49, 50, 400, 401}

ScoreCodes == {code_counts(q, z, p, c) : q, z, p, c \in 0..1}

\* score_a = calculate_quality_score(text_a, stats, codes), and the same for b.
CalculateScores ==
  /\ scores = <<>>
  /\ scores' = <<calculate_quality_score(score_args.text_a, score_args.stats,
                                         score_args.codes),
                 calculate_quality_score(score_args.text_b, score_args.stats,
                                         score_args.codes)>>
  /\ UNCHANGED <<score_args, pipeline_vars, numpy_release, cache_vars, tuner_vars,
                 batch_vars, analyzer_vars, last_call>>

InitScore ==
  /\ numpy_release \in NumpyReleases
  /\ \E text_a \in ScoreTexts, text_b \in ScoreTexts, wpm \in ScoreWpm, codes \in ScoreCodes :
       /\ Len(text_a) = Len(text_b)
       /\ score_args = [text_a |-> text_a, text_b |-> text_b,
                        stats |-> [wpm |-> wpm], codes |-> codes]
  /\ scores = <<>>
  /\ NoPipeline
  /\ NoCache
  /\ NoTuner
  /\ NoBatch
  /\ NoAnalyzer
  /\ last_call = <<>>

SpecScore == InitScore /\ [][CalculateScores]_vars

\* ------------------------------------------------------------------------
\* The cache under one caller (SpecCache)

\* C19: with one caller the cache never holds more than 100 entries; the cache
\* changes only by losing its earliest inserted entry when it is full, just
\* before an insertion, or by gaining the new entry at the end when it is
\* not full; a cache hit leaves the entries and their order as they are.
C19_FifoEviction ==
  [][/\ Len(cache') <= _CACHE_MAX_SIZE
     /\ cache' # cache =>
          \/ /\ Len(cache) = _CACHE_MAX_SIZE
             /\ worker[1].pc = "evict"
             /\ worker'[1].pc = "insert"
             /\ cache' = Tail(cache)
          \/ /\ Len(cache) < _CACHE_MAX_SIZE
             /\ worker[1].pc = "insert"
             /\ cache' = Append(cache, [key |-> worker[1].key[1],
                                        value |-> worker[1].decoded[1]])
     /\ worker[1].pc = "cache_read" =>
          /\ cache' = cache
          /\ worker'[1].result = <<dict_get(cache, worker[1].key[1])>>]_vars

\* The cache is full and has evicted entries, an evicted key has come back,
\* and a hit on the oldest entry has just returned it and left it the oldest.
C19_Witness ==
  /\ Len(cache) = _CACHE_MAX_SIZE
  /\ first_key_of(cache) # file_keys(4)[1]
  /\ reinserts > 0
  /\ worker[1].pc = "returned"
  /\ worker[1].decoded = <<>>
  /\ worker[1].key = <<first_key_of(cache)>>
  /\ worker[1].result = <<cache[1].value>>

\* ------------------------------------------------------------------------
\* The cache under the worker threads of the batch command (SpecBatchThreads)

\* The call of thread t has come to its end.
CallOver(t) == worker[t].pc \in {"returned", "raised"}

\* The file of the call of thread t cannot be decoded: it is missing, it is
\* no audio, or it is silent.
BadFile(t) ==
  \/ FolderFile(worker[t].key[1].file) \in {MISSING, UNREADABLE}
  \/ FolderFile(worker[t].key[1].file) = SILENT_FILE

C20_ConcurrentCacheSafe ==
  /\ Len(cache) <= _CACHE_MAX_SIZE
  /\ \A t \in Threads :
       (CallOver(t) /\ worker[t].decoded # <<>>) =>
         /\ worker[t].pc = "returned"
         /\ worker[t].result = worker[t].decoded

\* ------------------------------------------------------------------------
\* The tuner (SpecTuner, SpecSelect, SpecScore)

TunerDone == tuner_pc = "returned"

\* The score a is at most the score b.
ScoreAtMost(a, b) == a.num * b.den <= b.num * a.den

\* The indices of the candidates that were evaluated successfully.
Succeeded == {i \in DOMAIN results : results[i] # <<>>}

\* C14: when the tuner returns a candidate, it is one of the evaluated ones
\* and no successfully evaluated candidate has a higher score; it returns no
\* candidate only when every candidate failed.
C14_BestScoreWins ==
  TunerDone =>
    /\ best_result # <<>> =>
         /\ \E i \in Succeeded : results[i] = best_result
         /\ \A i \in Succeeded : ScoreAtMost(results[i][1].score, best_result[1].score)
    /\ best_result = <<>> => Succeeded = {}

\* The tuner has returned a candidate that is not the first of the grid and
\* that beat a candidate with a lower score.
C14_Witness ==
  /\ TunerDone
  /\ best_result # <<>>
  /\ results[1] # <<>>
  /\ results[1] # best_result
  /\ ~ScoreAtMost(best_result[1].score, results[1][1].score)
  /\ Succeeded # DOMAIN results

\* The candidates sharing the score of the returned one.
TopScored ==
  {i \in Succeeded : /\ ScoreAtMost(results[i][1].score, best_result[1].score)
                     /\ ScoreAtMost(best_result[1].score, results[i][1].score)}

\* The ratio of unknown characters a is at most the ratio b.
RatioAtMost(a, b) == a.num * b.den <= b.num * a.den

FailedCalls ==
  {i \in DOMAIN evaluated :
     process_file(tuning_file, evaluated[i], numpy_release).stats.error # NONE}

\* C16: a candidate whose evaluation failed has no result and is not the
\* returned one; every tuple of the grid is still evaluated and compared, and
\* a candidate is returned whenever one succeeded.
C16_FailedSkipped ==
  TunerDone =>
    /\ \A i \in FailedCalls : results[i] = <<>>
    /\ best_result # <<>> => best_result[1].stats.error = NONE
    /\ Len(results) = Len(combinations(mode))
    /\ result_index = Len(results)
    /\ Succeeded # {} => best_result # <<>>

\* The tuner has returned a candidate that was evaluated after a failed one.
C16_Witness ==
  /\ TunerDone
  /\ best_result # <<>>
  /\ \E j \in DOMAIN results :
       /\ results[j] = best_result
       /\ \E i \in 1..(j - 1) : results[i] = <<>>

\* The four value sets of a mode, as lines 145-160 list them.
GridValues(m) ==
  IF m = "fast" THEN <<{60, 70, 80}, {55, 60}, {75, 85}, {90}>>
  ELSE IF m = "thorough"
  THEN <<{50, 60, 70, 75, 80, 85, 90}, {50, 55, 60, 65}, {70, 75, 80, 85, 90},
         {85, 90, 92, 94}>>
  ELSE <<{40, 45, 50, 55, 60, 65, 70, 75, 80, 85, 90}, {50, 53, 56, 59, 62, 65, 68},
         {70, 73, 76, 79, 82, 85, 88, 91}, {85, 87, 89, 91, 93, 95}>>

GridSize(m) == IF m = "fast" THEN 12 ELSE IF m = "thorough" THEN 560 ELSE 3696

\* The evaluation is over and the loop over the results has not begun.
Evaluated == tuner_pc = "select" /\ result_index = 0

C18_ScoreMonotone ==
  (Len(scores) = 2 /\ Len(score_args.text_a) = Len(score_args.text_b)
   /\ str_count(score_args.text_a, UNKNOWN_SYMBOL[1])
        >= str_count(score_args.text_b, UNKNOWN_SYMBOL[1]))
    => ScoreAtMost(scores[1], scores[2])

\* Two texts of the same length were scored; the one with more unknown
\* characters scored strictly lower.
C18_Witness ==
  /\ Len(scores) = 2
  /\ score_args.text_a # <<>>
  /\ str_count(score_args.text_a, UNKNOWN_SYMBOL[1])
       > str_count(score_args.text_b, UNKNOWN_SYMBOL[1])
  /\ ~ScoreAtMost(scores[2], scores[1])

\* ------------------------------------------------------------------------
\* The reported speed (Spec)

\* C21: the 'wpm' entry of the stats of a successful decode lies in
\* [10, 100], that is in 100..1000 tenths.
C21_WpmClamped ==
  pc = "returned" => (100 <= stats.wpm /\ stats.wpm <= 1000)

\* ------------------------------------------------------------------------
\* Grouping of symbols into letters (SpecClassify)

Classified == pc = "classified"

\* The three-way rule on the gaps from i on, thresholds times 200: a gap that
\* reaches the word threshold ends the word, another one that reaches the
\* letter threshold ends the letter, any other continues the letter.
RECURSIVE ThreeWayRule(_, _, _, _, _, _, _)
ThreeWayRule(symbols, gap_list_, lt, wt, i, current_letter, letters) ==
  IF i > Len(gap_list_)
    THEN Append(letters, current_letter)
  ELSE IF 200 * gap_list_[i] >= wt
    THEN ThreeWayRule(symbols, gap_list_, lt, wt, i + 1, symbols[i + 1],
                      Append(Append(letters, current_letter), WORD_BREAK))
  ELSE IF 200 * gap_list_[i] >= lt
    THEN ThreeWayRule(symbols, gap_list_, lt, wt, i + 1, symbols[i + 1],
                      Append(letters, current_letter))
  ELSE ThreeWayRule(symbols, gap_list_, lt, wt, i + 1,
                    current_letter \o symbols[i + 1], letters)

\* C22: the letters are those of the three-way rule: a gap below
\* letter_threshold continues the letter, a gap in [letter_threshold,
\* word_threshold) closes it, and a gap that reaches word_threshold always
\* closes it and emits a word break.
C22_ThreeWayRule ==
  (Classified /\ gaps # <<>>) =>
    morse_letters = ThreeWayRule(morse_symbols(pulses), gaps, letter_threshold,
                                 word_threshold, 1, morse_symbols(pulses)[1], <<>>)

\* A gap that reaches word_threshold and stays below letter_threshold.
C22_GapBetweenThresholds ==
  /\ Classified
  /\ \E i \in DOMAIN gaps : 200 * gaps[i] >= word_threshold /\ 200 * gaps[i] < letter_threshold

\* The letter tokens, word breaks left out.
LetterTokens == SelectSeq(morse_letters, LAMBDA m : m # WORD_BREAK)

\* C23: the letter tokens, joined in order, are the symbols in order; no
\* letter token is empty; a word break is never the first or the last token
\* and never next to another word break.
C23_OrderKept ==
  Classified =>
    /\ code_string(LetterTokens) = code_string(morse_symbols(pulses))
    /\ \A k \in DOMAIN morse_letters : morse_letters[k] # ""
    /\ morse_letters[1] # WORD_BREAK
    /\ morse_letters[Len(morse_letters)] # WORD_BREAK
    /\ \A k \in 1..(Len(morse_letters) - 1) :
         ~(morse_letters[k] = WORD_BREAK /\ morse_letters[k + 1] = WORD_BREAK)

\* A letter of more than one symbol and a word break in one list.
C23_Witness ==
  /\ Classified
  /\ \E k \in DOMAIN morse_letters : morse_letters[k] = WORD_BREAK
  /\ Len(LetterTokens) < Len(pulses)

\* ------------------------------------------------------------------------
\* The front end of the pipeline during a tuner run (SpecTuner)

\* C24: in one run of the tuner the audio is loaded, filtered and turned into
\* an envelope once.
C24_LoadedOnce ==
  TunerDone => audio_loads = 1

\* ------------------------------------------------------------------------
\* cmd_batch (src/morse_cli.py, lines 95-223) (SpecBatch)

NumWavFiles == 3

MaxWorkers == 2

\* auto_tune_parameters lines 217-221 as a fold over results.
RECURSIVE best_of(_, _, _, _)
best_of(results_, i, best_score_, best_result_) ==
  IF i > Len(results_)
  THEN best_result_
  ELSE IF results_[i] # <<>> /\ score_gt(results_[i][1].score, best_score_)
       THEN best_of(results_, i + 1, results_[i][1].score, results_[i])
       ELSE best_of(results_, i + 1, best_score_, best_result_)

\* A file of the folder: its audio, and whether save_results can open
\* <name>.txt for writing beside it (auto_tune.py line 300).
FolderEntries ==
  {[audio |-> UNREADABLE, writable |-> TRUE],
   [audio |-> MORSE_FILE_A, writable |-> TRUE],
   [audio |-> MORSE_FILE_A, writable |-> FALSE],
   [audio |-> TUNER_FILE_WORDS, writable |-> TRUE]}

\* auto_tune_parameters(str(wav_file), 'fast') as cmd_batch sees it: the
\* best result, None when no candidate gave a result (line 262), or the
\* OSError of save_results.
auto_tune_parameters(entry, release) ==
  LET best == best_of([k \in DOMAIN FastCombinations |->
                         test_parameter_combination(entry.audio, FastCombinations[k],
                                                    release)],
                      1, NEG_INF, <<>>)
  IN  IF best = <<>> THEN [raised |-> FALSE, value |-> <<>>]
      ELSE IF ~entry.writable THEN [raised |-> TRUE, value |-> <<>>]
      ELSE [raised |-> FALSE, value |-> best]

AutoTuned ==
  [release \in NumpyReleases |->
     [entry \in FolderEntries |-> auto_tune_parameters(entry, release)]]

\* The closure process_file of lines 123-150 were it without its handler of
\* lines 148-150: the exception of auto_tune_parameters leaves the closure.
process_file_closure_no_handler(idx, tuned) ==
  IF tuned.raised
  THEN [raised |-> TRUE, value |-> <<>>]
  ELSE IF tuned.value # <<>>
       THEN [raised |-> FALSE,
             value |-> <<[file |-> idx, success |-> TRUE,
                          score |-> tuned.value[1].score,
                          wpm |-> tuned.value[1].stats.wpm,
                          text_length |-> Len(tuned.value[1].text)]>>]
       ELSE [raised |-> FALSE, value |-> <<[file |-> idx, success |-> FALSE]>>]

\* The closure process_file of lines 123-150 for what auto_tune_parameters did
\* on file idx: the dict it returns.  The file name is the file's index.
process_file_closure(idx, tuned) ==
  IF tuned.raised
  THEN [raised |-> FALSE,
        value |-> <<[file |-> idx, success |-> FALSE, error |-> "OSError"]>>]
  ELSE IF tuned.value # <<>>
       THEN [raised |-> FALSE,
             value |-> <<[file |-> idx, success |-> TRUE,
                          score |-> tuned.value[1].score,
                          wpm |-> tuned.value[1].stats.wpm,
                          text_length |-> Len(tuned.value[1].text)]>>]
       ELSE [raised |-> FALSE, value |-> <<[file |-> idx, success |-> FALSE]>>]

\* The call of the closure on file idx.
called(idx) == process_file_closure(idx, AutoTuned[numpy_release][wav_files[idx]])

OnlyBatch ==
  UNCHANGED <<pipeline_vars, numpy_release, cache_vars, tuner_vars, score_vars,
              analyzer_vars, last_call>>

\* Lines 154-160: every file is submitted to the executor once.
Submit ==
  /\ batch_pc = "start"
  /\ workers > 1
  /\ futures' = [idx \in DOMAIN wav_files |-> "pending"]
  /\ batch_pc' = "collect"
  /\ UNCHANGED <<wav_files, workers, file_calls, file_reports, batch_results,
                 completed_count>>
  /\ OnlyBatch

\* A free worker thread of the executor takes a pending future and calls the
\* closure; at most `workers` calls run at a time.
Run(idx) ==
  /\ batch_pc = "collect"
  /\ futures[idx] = "pending"
  /\ Cardinality({j \in DOMAIN futures : futures[j] = "running"}) < workers
  /\ futures' = [futures EXCEPT ![idx] = "running"]
  /\ file_calls' = [file_calls EXCEPT ![idx] = @ + 1]
  /\ UNCHANGED <<wav_files, workers, file_reports, batch_results, completed_count,
                 batch_pc>>
  /\ OnlyBatch

\* The closure returns (or raises) in its thread: the future is done.
Finish(idx) ==
  /\ batch_pc = "collect"
  /\ futures[idx] = "running"
  /\ futures' = [futures EXCEPT ![idx] = "done"]
  /\ file_reports' = [file_reports EXCEPT ![idx] = called(idx)]
  /\ UNCHANGED <<wav_files, workers, file_calls, batch_results, completed_count,
                 batch_pc>>
  /\ OnlyBatch

\* Lines 163-170: as_completed yields a finished future; future.result()
\* returns the closure's dict or raises again what the closure raised.
Collect(idx) ==
  /\ batch_pc = "collect"
  /\ futures[idx] = "done"
  /\ futures' = [futures EXCEPT ![idx] = "collected"]
  /\ IF file_reports[idx].raised
     THEN /\ batch_pc' = "raised"
          /\ UNCHANGED <<batch_results, completed_count>>
     ELSE /\ batch_results' = IF file_reports[idx].value[1].success
                              THEN Append(batch_results, file_reports[idx].value[1])
                              ELSE batch_results
          /\ completed_count' = completed_count + 1
          /\ UNCHANGED batch_pc
  /\ UNCHANGED <<wav_files, workers, file_calls, file_reports>>
  /\ OnlyBatch

\* Lines 171-179: one iteration of the sequential loop.
SequentialNext ==
  /\ batch_pc = "start"
  /\ workers <= 1
  /\ completed_count < Len(wav_files)
  /\ LET idx == completed_count + 1
         result == called(idx)
     IN  /\ file_calls' = [file_calls EXCEPT ![idx] = @ + 1]
         /\ file_reports' = [file_reports EXCEPT ![idx] = result]
         /\ IF result.raised
            THEN /\ batch_pc' = "raised"
                 /\ UNCHANGED <<batch_results, completed_count>>
            ELSE /\ batch_results' = IF result.value[1].success
                                     THEN Append(batch_results, result.value[1])
                                     ELSE batch_results
                 /\ completed_count' = completed_count + 1
                 /\ UNCHANGED batch_pc
  /\ UNCHANGED <<wav_files, workers, futures>>
  /\ OnlyBatch

\* Lines 181-223: both loops are over, the totals are printed, return 0.
BatchReturn ==
  /\ batch_pc \in {"start", "collect"}
  /\ completed_count = Len(wav_files)
  /\ batch_pc' = "returned"
  /\ UNCHANGED <<wav_files, workers, futures, file_calls, file_reports, batch_results,
                 completed_count>>
  /\ OnlyBatch

\* Lines 102-119: the folder holds at least one *.wav file; workers is
\* args.workers, or cpu_count() for 0, and at most the number of files.
InitBatch ==
  /\ numpy_release \in NumpyReleases
  /\ wav_files \in [1..NumWavFiles -> FolderEntries]
  /\ workers \in {Min(w, NumWavFiles) : w \in 1..MaxWorkers}
  /\ futures = [idx \in 1..NumWavFiles |-> "none"]
  /\ file_calls = [idx \in 1..NumWavFiles |-> 0]
  /\ file_reports = [idx \in 1..NumWavFiles |-> [raised |-> FALSE, value |-> <<>>]]
  /\ batch_results = <<>>
  /\ completed_count = 0
  /\ batch_pc = "start"
  /\ NoPipeline
  /\ NoCache
  /\ NoTuner
  /\ NoScore
  /\ NoAnalyzer
  /\ last_call = <<>>

NextBatch ==
  \/ Submit
  \/ \E idx \in 1..NumWavFiles : Run(idx)
  \/ \E idx \in 1..NumWavFiles : Finish(idx)
  \/ \E idx \in 1..NumWavFiles : Collect(idx)
  \/ SequentialNext
  \/ BatchReturn

SpecBatch == InitBatch /\ [][NextBatch]_vars

BatchDone == batch_pc = "returned"

\* The successful reports, as a set.
Reported == {batch_results[k] : k \in DOMAIN batch_results}

\* C25: when cmd_batch returns, the closure was called exactly once on every
\* file of the folder, the call never left cmd_batch by an exception, every
\* file has its report, the report of a file is what the file alone gives
\* whatever the other files did, and results holds exactly the successful
\* reports, each once.
C25_FailureIsolated ==
  /\ batch_pc # "raised"
  /\ BatchDone =>
       /\ \A idx \in DOMAIN wav_files :
            /\ file_calls[idx] = 1
            /\ file_reports[idx].value # <<>>
            /\ file_reports[idx].value[1].file = idx
            /\ file_reports[idx].value[1].success
                 = (~AutoTuned[numpy_release][wav_files[idx]].raised
                    /\ AutoTuned[numpy_release][wav_files[idx]].value # <<>>)
            /\ file_reports[idx].value[1].success
                 <=> file_reports[idx].value[1] \in Reported
       /\ Cardinality(Reported) = Len(batch_results)
       /\ \A k \in DOMAIN batch_results : batch_results[k].success

\* A batch that returned after one file raised in save_results, one gave no
\* result and one was decoded, on the thread-pool path.
C25_Witness ==
  /\ BatchDone
  /\ workers > 1
  /\ Len(batch_results) = 1
  /\ \E i \in DOMAIN wav_files : AutoTuned[numpy_release][wav_files[i]].raised
  /\ \E j \in DOMAIN wav_files : wav_files[j].audio = UNREADABLE

\* ------------------------------------------------------------------------
\* MultiSignalDecoder.detect_frequency_peaks
\* (src/modules/multi_signal_decoder.py, lines 50-170) (SpecPeaks)

MaxPeaks == 4

\* Frequencies of spectral peaks in Hz; find_peaks keeps them 100 Hz apart.
PeakFreqs == {400, 600, 700, 900, 1000, 1300}

\* Peak heights of the normalised spectrum, in tenths.
PeakAmps == {5, 7, 10}

py_abs(x) == IF x < 0 THEN -x ELSE x

RECURSIVE seq_sum(_)
seq_sum(s) == IF s = <<>> THEN 0 ELSE Head(s) + seq_sum(Tail(s))

seq_min(s) == CHOOSE x \in {s[k] : k \in DOMAIN s} : \A k \in DOMAIN s : x <= s[k]

seq_max(s) == CHOOSE x \in {s[k] : k \in DOMAIN s} : \A k \in DOMAIN s : x >= s[k]

\* Lines 91-99 and 112-144: is_single_signal for the peaks kept, their
\* frequencies ascending (line 106) and their heights in tenths.
is_single_signal(peak_freqs, peak_amps) ==
  IF Len(peak_freqs) = 0
  THEN TRUE
  ELSE IF Len(peak_freqs) = 1
  THEN TRUE
  ELSE IF Len(peak_freqs) = 2
  THEN LET freq_distance == py_abs(peak_freqs[2] - peak_freqs[1])
       IN  \/ freq_distance < 300
           \/ /\ 10 * seq_min(peak_amps) > 7 * seq_max(peak_amps)
              /\ freq_distance < 500
  ELSE LET freq_range == seq_max(peak_freqs) - seq_min(peak_freqs)
           distances == [k \in 1..(Len(peak_freqs) - 1) |->
                           peak_freqs[k + 1] - peak_freqs[k]]
       IN  \/ freq_range < 800
           \/ seq_sum(distances) < 400 * (Len(peak_freqs) - 1)

OnlyAnalyzer ==
  UNCHANGED <<pipeline_vars, numpy_release, cache_vars, tuner_vars, score_vars,
              batch_vars, last_call>>

\* detect_frequency_peaks from the peaks find_peaks kept: peak_info.
DetectFrequencyPeaks ==
  /\ analyzer_result = <<>>
  /\ analyzer_result' =
       <<[count |-> Len(analyzer_call.peak_freqs),
          is_single_signal |-> is_single_signal(analyzer_call.peak_freqs,
                                                analyzer_call.peak_amps)]>>
  /\ UNCHANGED analyzer_call
  /\ OnlyAnalyzer

NoOtherThanAnalyzer ==
  /\ NoPipeline
  /\ NoCache
  /\ NoTuner
  /\ NoScore
  /\ NoBatch
  /\ last_call = <<>>

InitPeaks ==
  /\ numpy_release \in NumpyReleases
  /\ \E n \in 0..MaxPeaks :
       \E peak_freqs \in [1..n -> PeakFreqs], peak_amps \in [1..n -> PeakAmps] :
         /\ \A k \in 1..(n - 1) : peak_freqs[k] < peak_freqs[k + 1]
         /\ analyzer_call = [peak_freqs |-> peak_freqs, peak_amps |-> peak_amps]
  /\ analyzer_result = <<>>
  /\ NoOtherThanAnalyzer

SpecPeaks == InitPeaks /\ [][DetectFrequencyPeaks]_vars

\* The conditions stated for a single signal, on the peaks of the call.
StatedSingleSignal ==
  LET f == analyzer_call.peak_freqs
      a == analyzer_call.peak_amps
      n == Len(f)
  IN  \/ n = 1
      \/ n = 2 /\ f[2] - f[1] < 300
      \/ n = 2 /\ 10 * seq_min(a) >= 7 * seq_max(a) /\ f[2] - f[1] < 500
      \/ n >= 3 /\ f[n] - f[1] < 800
      \/ n >= 3 /\ f[n] - f[1] < 400 * (n - 1)

\* C26: is_single_signal is true exactly when the peaks are one peak, two
\* peaks less than 300 Hz apart, two peaks with an amplitude ratio of at
\* least 0.7 less than 500 Hz apart, or three or more peaks that span less
\* than 800 Hz or are less than 400 Hz apart on average.
C26_SingleSignalRule ==
  analyzer_result # <<>> =>
    (analyzer_result[1].is_single_signal <=> StatedSingleSignal)

\* ------------------------------------------------------------------------
\* SignalAnalyzer.detect_modulation_type
\* (src/modules/signal_analyzer.py, lines 16-84) (SpecModulation)

MaxSpectrumPeaks == 3

\* Distances in Hz between neighbouring peaks of the spectrum.
FreqDistances == {10, 170, 300, 450}

\* Widths in Hz of the part of the spectrum above a tenth of its maximum.
Bandwidths == {0, 20, 30, 49, 50, 55, 60, 500, 1000}

\* Lines 56-84: type and confidence for the peaks find_peaks found, by the
\* distances between neighbours (np.diff of the sorted frequencies), and for
\* the bandwidth.
detect_modulation_type(num_peaks, freq_distances, bandwidth) ==
  IF num_peaks >= 2
  THEN IF \/ \E k \in DOMAIN freq_distances :
               150 < freq_distances[k] /\ freq_distances[k] < 200
          \/ \E k \in DOMAIN freq_distances :
               400 < freq_distances[k] /\ freq_distances[k] < 500
       THEN [type |-> "RTTY", confidence |-> 70]
       ELSE [type |-> "CW", confidence |-> 80]
  ELSE IF bandwidth < 50
  THEN IF 20 < bandwidth /\ bandwidth < 60
       THEN [type |-> "PSK31", confidence |-> 60]
       ELSE [type |-> "CW", confidence |-> 80]
  ELSE [type |-> "CW", confidence |-> 80]

DetectModulationType ==
  /\ analyzer_result = <<>>
  /\ analyzer_result' = <<detect_modulation_type(analyzer_call.num_peaks,
                                                 analyzer_call.freq_distances,
                                                 analyzer_call.bandwidth)>>
  /\ UNCHANGED analyzer_call
  /\ OnlyAnalyzer

\* The peaks are at least 0.3 of the maximum (line 54), so they lie within
\* the bandwidth of line 51.
InitModulation ==
  /\ numpy_release \in NumpyReleases
  /\ \E num_peaks \in 0..MaxSpectrumPeaks, bandwidth \in Bandwidths :
       \E freq_distances \in [1..Max(num_peaks - 1, 0) -> FreqDistances] :
         /\ seq_sum(freq_distances) <= bandwidth
         /\ analyzer_call = [num_peaks |-> num_peaks,
                             freq_distances |-> freq_distances,
                             bandwidth |-> bandwidth]
  /\ analyzer_result = <<>>
  /\ NoOtherThanAnalyzer

SpecModulation == InitModulation /\ [][DetectModulationType]_vars

\* The stated rule on the spectrum of the call.
StatedModulation ==
  LET d == analyzer_call.freq_distances
      bw == analyzer_call.bandwidth
  IN  IF /\ analyzer_call.num_peaks >= 2
         /\ \E k \in DOMAIN d : (150 < d[k] /\ d[k] < 200) \/ (400 < d[k] /\ d[k] < 500)
      THEN "RTTY"
      ELSE IF 20 < bw /\ bw < 60 THEN "PSK31" ELSE "CW"

\* C28: the type is RTTY when two peaks are between 150 and 200 Hz or between
\* 400 and 500 Hz apart, otherwise PSK31 whenever the bandwidth is between 20
\* and 60 Hz, otherwise CW with confidence 80; the type is one of the three
\* and the confidence is within 0..100.
C28_ModulationRule ==
  analyzer_result # <<>> =>
    /\ analyzer_result[1].type = StatedModulation
    /\ analyzer_result[1].type = "CW" => analyzer_result[1].confidence = 80
    /\ analyzer_result[1].type \in {"CW", "PSK31", "RTTY"}
    /\ analyzer_result[1].confidence \in 0..100

\* ------------------------------------------------------------------------
\* SignalAnalyzer.analyze_operator_skill
\* (src/modules/signal_analyzer.py, lines 131-190 and 284-345) (SpecSkill)
\*
\* Durations are in units of 10 ms.  The metrics are floats in the code; here
\* they are whole points, the amount subtracted from 100 rounded down, and
\* the skill score is kept as the sum of the three metrics (three times the
\* mean), so that the thresholds 80, 60 and 40 are the sums 240, 180 and 120.

MaxSkillPulses == 10

\* Pulse and gap durations of a keyed message: dots and dashes, short and
\* long gaps.
SkillDurations == {1, 3}

SkillGaps == {1, 7}

RECURSIVE isqrt_between(_, _, _)
isqrt_between(n, lo, hi) ==
  IF lo >= hi
  THEN lo
  ELSE LET mid == (lo + hi + 1) \div 2
       IN  IF mid * mid <= n
           THEN isqrt_between(n, mid, hi)
           ELSE isqrt_between(n, lo, mid - 1)

\* The integer part of the square root of n.
isqrt(n) == isqrt_between(n, 0, Min(n, 46340))

sum_of_squares(s) == seq_sum([k \in DOMAIN s |-> s[k] * s[k]])

\* n*n times the variance of s: n*sum(x^2) - sum(x)^2.
scaled_variance(s) == Len(s) * sum_of_squares(s) - seq_sum(s) * seq_sum(s)

\* _calculate_timing_stability without the max(0, ...) of line 296.
_calculate_timing_stability_unclamped(durations) ==
  IF seq_sum(durations) = 0
  THEN 0
  ELSE 100 - (isqrt(40000 * scaled_variance(durations)) \div seq_sum(durations))

\* Lines 284-297: cv = std / mean is sqrt(scaled_variance) / sum.
_calculate_timing_stability(durations) ==
  IF seq_sum(durations) = 0
  THEN 0
  ELSE Max(0, 100 - (isqrt(40000 * scaled_variance(durations)) \div seq_sum(durations)))

\* Lines 299-311.
_calculate_rhythm_consistency(durations, gap_list_) ==
  IF Len(gap_list_) < 5
  THEN 50
  ELSE IF seq_sum(gap_list_) > 0
       THEN Max(0, 100 - (isqrt(22500 * scaled_variance(gap_list_)) \div seq_sum(gap_list_)))
       ELSE Max(0, 100 - 150)

\* Lines 332-345: variance / mean^2 is scaled_variance / sum^2.
_calculate_variance_score(durations) ==
  IF seq_sum(durations) = 0
  THEN 0
  ELSE Max(0, 100 - ((500 * scaled_variance(durations))
                       \div (seq_sum(durations) * seq_sum(durations))))

\* Lines 146-190, the pulses given by their durations.
analyze_operator_skill(durations, gap_list_) ==
  IF Len(durations) < 10
  THEN [timing_stability |-> 0, rhythm_consistency |-> 0, variance_score |-> 0,
        skill_level |-> "UNKNOWN", skill_score_x3 |-> 0]
  ELSE
    LET timing_stability == _calculate_timing_stability(durations)
        rhythm_consistency == _calculate_rhythm_consistency(durations, gap_list_)
        variance_score == _calculate_variance_score(durations)
        skill_score_x3 == timing_stability + rhythm_consistency + variance_score
    IN  [timing_stability |-> timing_stability,
         rhythm_consistency |-> rhythm_consistency,
         variance_score |-> variance_score,
         skill_level |-> IF skill_score_x3 >= 3 * 80 THEN "EXPERT"
                         ELSE IF skill_score_x3 >= 3 * 60 THEN "ADVANCED"
                         ELSE IF skill_score_x3 >= 3 * 40 THEN "INTERMEDIATE"
                         ELSE "BEGINNER",
         skill_score_x3 |-> skill_score_x3]

AnalyzeOperatorSkill ==
  /\ analyzer_result = <<>>
  /\ analyzer_result' = <<analyze_operator_skill(analyzer_call.durations,
                                                 analyzer_call.gaps)>>
  /\ UNCHANGED analyzer_call
  /\ OnlyAnalyzer

\* Gap lists: none (as multi_signal_decoder.py line 365 may pass), or one gap
\* after every pulse but the last, the first `long` of them long.
InitSkill ==
  /\ numpy_release \in NumpyReleases
  /\ \E n \in {0} \cup ((MaxSkillPulses - 1)..MaxSkillPulses) :
       \E durations \in [1..n -> SkillDurations], long \in -1..Max(n - 1, 0) :
         analyzer_call =
           [durations |-> durations,
            gaps |-> IF long = -1 THEN <<>>
                     ELSE [k \in 1..Max(n - 1, 0) |-> IF k <= long THEN 7 ELSE 1]]
  /\ analyzer_result = <<>>
  /\ NoOtherThanAnalyzer

SpecSkill == InitSkill /\ [][AnalyzeOperatorSkill]_vars

\* C27: with fewer than 10 pulses every metric is 0 and the tier is UNKNOWN;
\* otherwise every metric is within 0..100, the score is their mean, and the
\* tier is EXPERT from 80, ADVANCED from 60, INTERMEDIATE from 40 and
\* BEGINNER below.
C27_SkillTiers ==
  analyzer_result # <<>> =>
    LET r == analyzer_result[1]
    IN  IF Len(analyzer_call.durations) < 10
        THEN /\ r.timing_stability = 0 /\ r.rhythm_consistency = 0
             /\ r.variance_score = 0 /\ r.skill_score_x3 = 0
             /\ r.skill_level = "UNKNOWN"
        ELSE /\ r.timing_stability \in 0..100
             /\ r.rhythm_consistency \in 0..100
             /\ r.variance_score \in 0..100
             /\ r.skill_score_x3
                  = r.timing_stability + r.rhythm_consistency + r.variance_score
             /\ (r.skill_level = "EXPERT") <=> (r.skill_score_x3 >= 240)
             /\ (r.skill_level = "ADVANCED")
                  <=> (r.skill_score_x3 >= 180 /\ r.skill_score_x3 < 240)
             /\ (r.skill_level = "INTERMEDIATE")
                  <=> (r.skill_score_x3 >= 120 /\ r.skill_score_x3 < 180)
             /\ (r.skill_level = "BEGINNER") <=> (r.skill_score_x3 < 120)

\* A keying of ten pulses rated INTERMEDIATE.
C27_Witness ==
  /\ analyzer_result # <<>>
  /\ Len(analyzer_call.durations) >= 10
  /\ analyzer_result[1].skill_level = "INTERMEDIATE"

\* ------------------------------------------------------------------------
\* The cache and the configuration of the decoder (SpecConfig)

\* A recording holds keyed tones; bandpass_filter (lines 167-177, a
\* Butterworth band pass from min_freq to max_freq) keeps the tones inside
\* the passband and envelope_detection gives their envelope.
TWO_TONE_FILE ==
  [name |-> 1,
   tones |-> <<[freq |-> 500, envelope |-> <<0, 0, 1, 0, 0, 0, 2, 0, 0, 0, 0>>],
               [freq |-> 900, envelope |-> <<0, 0, 2, 2, 0, 2, 0, 0, 0, 0, 0>>]>>]

ONE_TONE_FILE ==
  [name |-> 2,
   tones |-> <<[freq |-> 600, envelope |-> <<0, 0, 1, 0, 0, 0, 2, 0, 0, 0, 0>>]>>]

Recordings == {TWO_TONE_FILE, ONE_TONE_FILE}

\* <<min_freq, max_freq>>: the default of line 109 and two narrower bands.
Passbands == {<<400, 1200>>, <<400, 700>>, <<800, 1200>>}

\* MorseDecoder.__init__, lines 108-136: the decoders of the callers.
Decoders ==
  {[min_freq |-> band[1], max_freq |-> band[2], params |-> FastCombinations[1],
    use_cache |-> use_cache] : band \in Passbands, use_cache \in BOOLEAN}

\* load_audio, bandpass_filter and envelope_detection of a decoder on a
\* recording, lines 379-389.
front_end(recording, decoder) ==
  LET passed == {k \in DOMAIN recording.tones :
                   /\ decoder.min_freq < recording.tones[k].freq
                   /\ recording.tones[k].freq < decoder.max_freq}
  IN  audio_file([s \in DOMAIN recording.tones[1].envelope |->
                    IF passed = {} THEN 0
                    ELSE seq_max([k \in 1..Len(recording.tones) |->
                                    IF k \in passed THEN recording.tones[k].envelope[s]
                                    ELSE 0])])

\* process_file with the cache left out (use_cache=False): lines 372-527.
process_file_uncached(recording, decoder, release) ==
  process_file(front_end(recording, decoder), decoder.params, release)

\* Lines 353-363 and 85-104: the key holds the file and the four percentiles
\* (language and analyze_procedural are the same in every call); min_freq,
\* max_freq and target_sample_rate are not part of params_dict.
config_cache_key(recording, decoder) == cache_key_of(recording.name, decoder.params)

\* process_file, lines 350-527, by a decoder on a recording, as one step of a
\* single caller.
ProcessFile ==
  /\ \E decoder \in Decoders, recording \in Recordings :
       LET key == config_cache_key(recording, decoder)
       IN  IF decoder.use_cache /\ key \in dict_keys(cache)
           THEN /\ last_call' = <<[decoder |-> decoder, recording |-> recording,
                                   result |-> dict_get(cache, key)]>>
                /\ UNCHANGED cache
           ELSE
             LET run == run_pipeline(front_end(recording, decoder), decoder.params,
                                     numpy_release)
                 result == IF run.exception # NONE
                           THEN except_clauses(run.exception, run.error_message).result[1]
                           ELSE run.result
                 kept == IF Len(cache) >= _CACHE_MAX_SIZE
                         THEN dict_del(cache, first_key_of(cache))
                         ELSE cache
             IN  /\ last_call' = <<[decoder |-> decoder, recording |-> recording,
                                    result |-> result]>>
                 /\ cache' = IF run.exception = NONE /\ ~run.returned /\ decoder.use_cache
                             THEN dict_set(kept, key, result)
                             ELSE cache
  /\ UNCHANGED <<worker, reinserts, pipeline_vars, numpy_release, tuner_vars, score_vars,
                 batch_vars, analyzer_vars>>

InitConfig ==
  /\ numpy_release \in NumpyReleases
  /\ cache = <<>>
  /\ worker = <<>>
  /\ reinserts = 0
  /\ last_call = <<>>
  /\ NoPipeline
  /\ NoTuner
  /\ NoScore
  /\ NoBatch
  /\ NoAnalyzer

SpecConfig == InitConfig /\ [][ProcessFile]_vars

\* C29: whatever the passbands of the decoders that called before, a call
\* with use_cache=True returns what the same call returns with
\* use_cache=False.
C29_CacheTransparent ==
  (last_call # <<>> /\ last_call[1].decoder.use_cache) =>
    last_call[1].result
      = process_file_uncached(last_call[1].recording, last_call[1].decoder, numpy_release)

\* ------------------------------------------------------------------------
\* The text the tuner scores (SpecDecode)

\* C30: the English and the Cyrillic decoding of a token list have the same
\* length, and the text test_parameter_combination scores and reports as
\* 'text' is the Cyrillic one.
C30_CyrillicTextScored ==
  pc = "decoded" =>
    /\ Len(text_en) = Len(text_ru)
    /\ test_result(FastCombinations[1],
                   result_tuple(text_en, text_ru, [wpm |-> 200]))[1].text = text_ru

\* A decoding in which a prosign takes more than one character and the two
\* texts differ.
C30_Witness ==
  /\ pc = "decoded"
  /\ Len(text_en) > Len(morse_letters)
  /\ text_en # text_ru

====
